---- MODULE Spec2Model ----
(***************************************************************************)
(* A model of the optimistic-weather forecast pipeline:                    *)
(*   - the string helpers and the fuzzy location ranking (pickBestMatch),  *)
(*   - location resolution and the forecast orchestrator                   *)
(*     (geocodeLocation, fetchDailyForecast, fetchOptimisticForecast),     *)
(*   - the suggestion service (searchLocationSuggestions),                 *)
(*   - the incremental-search effect of the web and mobile App.            *)
(* Strings are sequences of one-character strings, so that trimming, case  *)
(* folding, tokenising and the edit distance are computed as the code      *)
(* computes them.                                                          *)
(***************************************************************************)
EXTENDS Integers, Sequences, FiniteSets, TLC

VARIABLES
    \* ---- pickBestMatch (pure function harness)
    pickQuery,      \* the query argument
    pickOptions,    \* the options argument (provider order)
    pickCalled,     \* whether pickBestMatch has returned
    pickScored,     \* the `scored` array the call built
    pickResult,     \* the returned option (None for null)
    \* ---- fetchOptimisticForecast / geocodeLocation (one call)
    variant,        \* "web" (src/src) or "mobile" (src/mobile/src)
    hasApiKey,      \* whether the OpenWeather key is configured
    geoQuery,       \* the query argument of the call
    pc,             \* position of the async call
    requests,       \* provider requests issued so far, in order
    responses,      \* what each completed request produced, in order
    location,       \* the resolved GeoLocation, or None
    series,         \* forecast.list of the short-range response, or None
    primaryDaily,   \* fetchDailyForecast's `primary`: [status, daily, hourly, timezone_offset]
    legacyDaily,    \* fetchDailyForecast's `fallback`: [status, list, timezone]
    forecastResult, \* the returned OptimisticForecast, or None
    forecastError,  \* the error the call rejected with, or None
    \* ---- searchLocationSuggestions (one call)
    sugQuery,       \* the query argument
    sugPc,          \* position of the async call
    sugRequests,    \* provider requests issued so far, in order
    sugFailed,      \* the sources whose request failed
    sugResponses,   \* history: what each answered request returned, in order
    sugItems,       \* the suggestions collected so far
    sugResult,      \* the returned list, or None
    sugError,       \* the error the call rejected with, or None
    \* ---- App: incremental search state
    appVariant,             \* "web" or "mobile"
    query,                  \* useState query
    searchVisible,          \* useState searchVisible
    suggestions,            \* useState suggestions
    suggestionsLoading,     \* useState suggestionsLoading
    suggestionsError,       \* useState suggestionsError
    suggestionRequestIdRef, \* useRef counter
    timeoutId,              \* the pending debounce timer: None or [requestId, trimmedQuery]
    inFlight,               \* suggestion requests whose promise is pending
    issuedId,               \* history: the requestId most recently assigned by the effect
    outcomes,               \* history: whether the last outcome that arrived was of a superseded request
    searches,               \* the overlapping runSearch calls, in the order they started
    loading,                \* useState loading
    error,                  \* useState error
    forecast,               \* useState forecast
    lastQuery,              \* useState lastQuery
    \* ---- craftHighlights (pure function harness)
    hlHorizon,      \* the horizon argument
    hlUnits,        \* the units argument: "metric" or "imperial"
    hlCalled,       \* whether craftHighlights has returned
    hlResult,       \* the returned highlights
    \* ---- levenshteinDistance (pure function harness)
    levA,           \* the first argument
    levB,           \* the second argument
    levCalled,      \* whether levenshteinDistance has returned
    levResult,      \* the returned distance
    \* ---- the search history of the App
    history,        \* useState history: the entries, newest first
    historySearches, \* the queries of the runSearch calls whose fetch is pending
    historyStarted, \* the number of runSearch calls started so far
    historyLoading, \* useState loading, as the history handlers see it
    historyLast     \* history: query and outcome of the runSearch call that completed last

pickVars == <<pickQuery, pickOptions, pickCalled, pickScored, pickResult>>
geoVars == <<variant, hasApiKey, geoQuery, pc, requests, responses, location, series,
             primaryDaily, legacyDaily, forecastResult, forecastError>>
sugVars == <<sugQuery, sugPc, sugRequests, sugFailed, sugResponses, sugItems, sugResult,
             sugError>>
appVars == <<appVariant, query, searchVisible, suggestions, suggestionsLoading,
             suggestionsError, suggestionRequestIdRef, timeoutId, inFlight, issuedId,
             outcomes, searches, loading, error, forecast, lastQuery>>
hlVars == <<hlHorizon, hlUnits, hlCalled, hlResult>>
levVars == <<levA, levB, levCalled, levResult>>
histVars == <<history, historySearches, historyStarted, historyLoading, historyLast>>
vars == <<pickVars, geoVars, sugVars, appVars, hlVars, levVars, histVars>>

\* A nullable value is a sequence of length 0 (null / undefined) or 1.
None == <<>>
Some(x) == <<x>>
Idle == "idle"

\* The state of a component that a specification does not exercise.
PickIdle ==
    /\ pickQuery = <<>> /\ pickOptions = <<>> /\ pickCalled = FALSE
    /\ pickScored = <<>> /\ pickResult = None
HlIdle == hlHorizon = <<>> /\ hlUnits = "metric" /\ hlCalled = FALSE /\ hlResult = <<>>
LevIdle == levA = <<>> /\ levB = <<>> /\ levCalled = FALSE /\ levResult = 0
HistIdle ==
    /\ history = <<>> /\ historySearches = {} /\ historyStarted = 0
    /\ historyLoading = FALSE /\ historyLast = None
GeoCallIdle ==
    /\ variant = "web" /\ geoQuery = <<>> /\ pc = Idle
    /\ requests = <<>> /\ responses = <<>> /\ location = None /\ series = None
    /\ primaryDaily = [status |-> "not-called", daily |-> <<>>, hourly |-> <<>>,
                       timezone_offset |-> None]
    /\ legacyDaily = [status |-> "not-called", list |-> <<>>, timezone |-> None]
    /\ forecastResult = None /\ forecastError = None
GeoIdle == hasApiKey = TRUE /\ GeoCallIdle
SugIdle ==
    /\ sugQuery = <<>> /\ sugPc = Idle /\ sugRequests = <<>> /\ sugFailed = {}
    /\ sugResponses = <<>>
    /\ sugItems = <<>> /\ sugResult = None /\ sugError = None
AppIdle ==
    /\ appVariant = "web" /\ query = <<>> /\ searchVisible = FALSE
    /\ suggestions = <<>> /\ suggestionsLoading = FALSE /\ suggestionsError = None
    /\ suggestionRequestIdRef = 0 /\ timeoutId = None /\ inFlight = {}
    /\ issuedId = 0 /\ outcomes = <<>> /\ searches = <<>> /\ loading = FALSE /\ error = None
    /\ forecast = None /\ lastQuery = None

-----------------------------------------------------------------------------
(* Strings: String.prototype helpers over sequences of characters.         *)

LOWER == <<"a","b","c","d","e","f","g","h","i","j","k","l","m",
           "n","o","p","q","r","s","t","u","v","w","x","y","z">>
UPPER == <<"A","B","C","D","E","F","G","H","I","J","K","L","M",
           "N","O","P","Q","R","S","T","U","V","W","X","Y","Z">>
DIGITS == {"0","1","2","3","4","5","6","7","8","9"}

IsUpper(c) == \E i \in DOMAIN UPPER : UPPER[i] = c
IsLower(c) == \E i \in DOMAIN LOWER : LOWER[i] = c
IsAlpha(c) == IsUpper(c) \/ IsLower(c)
IsDigit(c) == c \in DIGITS
IsAlnum(c) == IsAlpha(c) \/ IsDigit(c)
IsSpace(c) == c = " "

toLowerCaseChar(c) ==
    IF IsUpper(c) THEN LOWER[CHOOSE i \in DOMAIN UPPER : UPPER[i] = c] ELSE c
toUpperCaseChar(c) ==
    IF IsLower(c) THEN UPPER[CHOOSE i \in DOMAIN LOWER : LOWER[i] = c] ELSE c

toLowerCase(s) == [i \in 1..Len(s) |-> toLowerCaseChar(s[i])]
toUpperCase(s) == [i \in 1..Len(s) |-> toUpperCaseChar(s[i])]

RECURSIVE trimStart(_)
trimStart(s) == IF s # <<>> /\ IsSpace(Head(s)) THEN trimStart(Tail(s)) ELSE s

RECURSIVE trimEnd(_)
trimEnd(s) ==
    IF s # <<>> /\ IsSpace(s[Len(s)]) THEN trimEnd(SubSeq(s, 1, Len(s) - 1)) ELSE s

trim(s) == trimEnd(trimStart(s))

\* s.includes(sub)
includes(s, sub) ==
    \E i \in 0..(Len(s) - Len(sub)) : SubSeq(s, i + 1, i + Len(sub)) = sub

\* s.split(',')[0]: the substring before the first comma (all of s without one)
RECURSIVE beforeFirstComma(_)
beforeFirstComma(s) ==
    IF s = <<>> \/ Head(s) = "," THEN <<>>
    ELSE <<Head(s)>> \o beforeFirstComma(Tail(s))

\* s.split(/[^A-Za-z0-9]+/).map(trim).filter(Boolean)
RECURSIVE splitTokens(_, _, _)
splitTokens(s, cur, acc) ==
    IF s = <<>> THEN (IF cur = <<>> THEN acc ELSE Append(acc, cur))
    ELSE IF IsAlnum(Head(s)) THEN splitTokens(Tail(s), Append(cur, Head(s)), acc)
    ELSE splitTokens(Tail(s), <<>>, IF cur = <<>> THEN acc ELSE Append(acc, cur))

\* parts.join(', ')
RECURSIVE joinCommaSpace(_)
joinCommaSpace(parts) ==
    IF parts = <<>> THEN <<>>
    ELSE IF Len(parts) = 1 THEN parts[1]
    ELSE parts[1] \o <<",", " ">> \o joinCommaSpace(Tail(parts))

Min2(a, b) == IF a <= b THEN a ELSE b
Min3(a, b, c) == Min2(a, Min2(b, c))

\* Evaluation helper: evaluates v once and hands the value to F (TLC would
\* otherwise re-evaluate an operator argument at each of its uses).
Let(F(_), v) == CHOOSE y \in { F(x) : x \in {v} } : TRUE

\* Mutant: a substitution is charged also when the characters are equal.
RECURSIVE levenshteinRowCostAlways(_, _, _, _, _)
levenshteinRowCostAlways(ai, b, prev, j, acc) ==
    IF j > Len(b) THEN acc
    ELSE LET cell == Min3(prev[j + 1] + 1, acc[j] + 1, prev[j] + 1)
         IN  Let(LAMBDA next : levenshteinRowCostAlways(ai, b, prev, j + 1, next),
                 Append(acc, cell))

\* One row of the dp table: acc holds dp[i][0..j-1], prev holds dp[i-1][0..lenB]
\* (column k of a row is at index k + 1).
RECURSIVE levenshteinRow(_, _, _, _, _)
levenshteinRow(ai, b, prev, j, acc) ==
    IF j > Len(b) THEN acc
    ELSE LET cost == IF ai = b[j] THEN 0 ELSE 1
             cell == Min3(prev[j + 1] + 1, acc[j] + 1, prev[j] + cost)
         IN  Let(LAMBDA next : levenshteinRow(ai, b, prev, j + 1, next), Append(acc, cell))

RECURSIVE levenshteinRows(_, _, _, _)
levenshteinRows(a, b, i, prev) ==
    IF i > Len(a) THEN prev
    ELSE Let(LAMBDA row : levenshteinRows(a, b, i + 1, row),
             levenshteinRow(a[i], b, prev, 1, <<i>>))

levenshteinDistance(a, b) ==
    Let(LAMBDA sa : Let(LAMBDA sb :
            levenshteinRows(sa, sb, 1, [k \in 1..(Len(sb) + 1) |-> k - 1])[Len(sb) + 1],
        [k \in 1..Len(b) |-> b[k]] \o <<>>),
        [k \in 1..Len(a) |-> a[k]] \o <<>>)

-----------------------------------------------------------------------------
(* Location ranking: src/src/services/openWeather.ts                       *)

\* A GeoLocation is [name, state, country, lat, lon]; an absent state is <<>>
\* (the code tests option.state for truthiness, so '' and undefined agree).
Geo(name, state, country, lat, lon) ==
    [name |-> name, state |-> state, country |-> country, lat |-> lat, lon |-> lon]

US_STATE_CODE_TO_NAME == {
    <<<<"A","L">>, <<"A","l","a","b","a","m","a">>>>,
    <<<<"A","K">>, <<"A","l","a","s","k","a">>>>,
    <<<<"A","Z">>, <<"A","r","i","z","o","n","a">>>>,
    <<<<"A","R">>, <<"A","r","k","a","n","s","a","s">>>>,
    <<<<"C","A">>, <<"C","a","l","i","f","o","r","n","i","a">>>>,
    <<<<"C","O">>, <<"C","o","l","o","r","a","d","o">>>>,
    <<<<"C","T">>, <<"C","o","n","n","e","c","t","i","c","u","t">>>>,
    <<<<"D","E">>, <<"D","e","l","a","w","a","r","e">>>>,
    <<<<"F","L">>, <<"F","l","o","r","i","d","a">>>>,
    <<<<"G","A">>, <<"G","e","o","r","g","i","a">>>>,
    <<<<"H","I">>, <<"H","a","w","a","i","i">>>>,
    <<<<"I","D">>, <<"I","d","a","h","o">>>>,
    <<<<"I","L">>, <<"I","l","l","i","n","o","i","s">>>>,
    <<<<"I","N">>, <<"I","n","d","i","a","n","a">>>>,
    <<<<"I","A">>, <<"I","o","w","a">>>>,
    <<<<"K","S">>, <<"K","a","n","s","a","s">>>>,
    <<<<"K","Y">>, <<"K","e","n","t","u","c","k","y">>>>,
    <<<<"L","A">>, <<"L","o","u","i","s","i","a","n","a">>>>,
    <<<<"M","E">>, <<"M","a","i","n","e">>>>,
    <<<<"M","D">>, <<"M","a","r","y","l","a","n","d">>>>,
    <<<<"M","A">>, <<"M","a","s","s","a","c","h","u","s","e","t","t","s">>>>,
    <<<<"M","I">>, <<"M","i","c","h","i","g","a","n">>>>,
    <<<<"M","N">>, <<"M","i","n","n","e","s","o","t","a">>>>,
    <<<<"M","S">>, <<"M","i","s","s","i","s","s","i","p","p","i">>>>,
    <<<<"M","O">>, <<"M","i","s","s","o","u","r","i">>>>,
    <<<<"M","T">>, <<"M","o","n","t","a","n","a">>>>,
    <<<<"N","E">>, <<"N","e","b","r","a","s","k","a">>>>,
    <<<<"N","V">>, <<"N","e","v","a","d","a">>>>,
    <<<<"N","H">>, <<"N","e","w"," ","H","a","m","p","s","h","i","r","e">>>>,
    <<<<"N","J">>, <<"N","e","w"," ","J","e","r","s","e","y">>>>,
    <<<<"N","M">>, <<"N","e","w"," ","M","e","x","i","c","o">>>>,
    <<<<"N","Y">>, <<"N","e","w"," ","Y","o","r","k">>>>,
    <<<<"N","C">>, <<"N","o","r","t","h"," ","C","a","r","o","l","i","n","a">>>>,
    <<<<"N","D">>, <<"N","o","r","t","h"," ","D","a","k","o","t","a">>>>,
    <<<<"O","H">>, <<"O","h","i","o">>>>,
    <<<<"O","K">>, <<"O","k","l","a","h","o","m","a">>>>,
    <<<<"O","R">>, <<"O","r","e","g","o","n">>>>,
    <<<<"P","A">>, <<"P","e","n","n","s","y","l","v","a","n","i","a">>>>,
    <<<<"R","I">>, <<"R","h","o","d","e"," ","I","s","l","a","n","d">>>>,
    <<<<"S","C">>, <<"S","o","u","t","h"," ","C","a","r","o","l","i","n","a">>>>,
    <<<<"S","D">>, <<"S","o","u","t","h"," ","D","a","k","o","t","a">>>>,
    <<<<"T","N">>, <<"T","e","n","n","e","s","s","e","e">>>>,
    <<<<"T","X">>, <<"T","e","x","a","s">>>>,
    <<<<"U","T">>, <<"U","t","a","h">>>>,
    <<<<"V","T">>, <<"V","e","r","m","o","n","t">>>>,
    <<<<"V","A">>, <<"V","i","r","g","i","n","i","a">>>>,
    <<<<"W","A">>, <<"W","a","s","h","i","n","g","t","o","n">>>>,
    <<<<"W","V">>, <<"W","e","s","t"," ","V","i","r","g","i","n","i","a">>>>,
    <<<<"W","I">>, <<"W","i","s","c","o","n","s","i","n">>>>,
    <<<<"W","Y">>, <<"W","y","o","m","i","n","g">>>>,
    <<<<"D","C">>, <<"D","i","s","t","r","i","c","t"," ","o","f"," ","C","o","l","u","m","b","i","a">>>>
}

US_STATE_NAME_TO_CODE == { <<toLowerCase(p[2]), p[1]>> : p \in US_STATE_CODE_TO_NAME }

MapHas(map, key) == \E p \in map : p[1] = key
MapGet(map, key) == (CHOOSE p \in map : p[1] = key)[2]

\* new Intl.DisplayNames(['en'], { type: 'region' }).of(code), for the region
\* codes that occur in the model; <<>> stands for "no display name".
regionDisplayNames(code) ==
    CASE code = <<"U","S">> -> <<"U","n","i","t","e","d"," ","S","t","a","t","e","s">>
      [] code = <<"A","U">> -> <<"A","u","s","t","r","a","l","i","a">>
      [] code = <<"C","A">> -> <<"C","a","n","a","d","a">>
      [] code = <<"M","X">> -> <<"M","e","x","i","c","o">>
      [] code = <<"P","T">> -> <<"P","o","r","t","u","g","a","l">>
      [] OTHER -> <<>>

COUNTRY_MATCH_BONUS == 40
COUNTRY_MISMATCH_PENALTY == 20
STATE_MATCH_BONUS == 25
STATE_MISMATCH_PENALTY == 15
US_PREFERENCE == 10

normalizedQueryOf(q) == toLowerCase(trim(q))
rawTokensOf(q) == splitTokens(q, <<>>, <<>>)
SeqToSet(s) == { s[i] : i \in DOMAIN s }
normalizedTokensOf(q) == { toLowerCase(t) : t \in SeqToSet(rawTokensOf(q)) }
uppercaseTokensOf(q) == { toUpperCase(t) : t \in SeqToSet(rawTokensOf(q)) }

matchesCountryFromOption(q, countryCode) ==
    LET isoLower == toLowerCase(countryCode)
        countryName == toLowerCase(regionDisplayNames(countryCode))
    IN  \/ isoLower \in normalizedTokensOf(q)
        \/ countryName # <<>> /\ includes(normalizedQueryOf(q), countryName)

hasCountryHints(q, options) ==
    \E i \in DOMAIN options : matchesCountryFromOption(q, options[i].country)

queryStateHints(q) ==
    UNION { {t, toLowerCase(MapGet(US_STATE_NAME_TO_CODE, t))} :
              t \in { n \in normalizedTokensOf(q) : MapHas(US_STATE_NAME_TO_CODE, n) } }
    \cup
    UNION { {toLowerCase(t), toLowerCase(MapGet(US_STATE_CODE_TO_NAME, t))} :
              t \in { u \in uppercaseTokensOf(q) : MapHas(US_STATE_CODE_TO_NAME, u) } }

hasStateHints(q) == queryStateHints(q) # {}

matchesStateFromOption(q, option) ==
    IF option.state = <<>> THEN FALSE
    ELSE LET normalizedState == toLowerCase(option.state)
         IN  \/ normalizedState \in queryStateHints(q)
             \/ toUpperCase(option.state) \in uppercaseTokensOf(q)
             \/ /\ toUpperCase(option.country) = <<"U","S">>
                /\ MapHas(US_STATE_NAME_TO_CODE, normalizedState)
                /\ toLowerCase(MapGet(US_STATE_NAME_TO_CODE, normalizedState))
                       \in queryStateHints(q)

locationLabel(option) ==
    toLowerCase(joinCommaSpace(
        <<option.name>>
        \o (IF option.state # <<>> THEN <<option.state>> ELSE <<>>)
        \o <<option.country>>))

labelDistance(q, option) == levenshteinDistance(normalizedQueryOf(q), locationLabel(option))

\* Mutant: the mismatch penalty is forgotten.
countryAdjustmentNoPenalty(q, options, option) ==
    IF matchesCountryFromOption(q, option.country) THEN 0 - COUNTRY_MATCH_BONUS ELSE 0

countryAdjustment(q, options, option) ==
    IF matchesCountryFromOption(q, option.country) THEN 0 - COUNTRY_MATCH_BONUS
    ELSE IF hasCountryHints(q, options) THEN COUNTRY_MISMATCH_PENALTY
    ELSE 0

\* Mutant: a candidate outside the hinted state is penalised alike in every country.
stateAdjustmentNoUsPreference(q, option) ==
    IF matchesStateFromOption(q, option) THEN 0 - STATE_MATCH_BONUS
    ELSE IF hasStateHints(q) THEN STATE_MISMATCH_PENALTY
    ELSE 0

stateAdjustmentWeb(q, option) ==
    IF matchesStateFromOption(q, option) THEN 0 - STATE_MATCH_BONUS
    ELSE IF hasStateHints(q)
         THEN STATE_MISMATCH_PENALTY
              + (IF toUpperCase(option.country) = <<"U","S">>
                 THEN 0 - US_PREFERENCE ELSE US_PREFERENCE)
    ELSE 0

\* One element of `scored`, with the distance the score was computed from.
scoredOption(q, options, option) ==
    Let(LAMBDA distance :
            [option |-> option,
             distance |-> distance,
             score |-> distance + countryAdjustment(q, options, option)
                       + stateAdjustmentWeb(q, option)],
        labelDistance(q, option))

\* options.map(...): the `scored` array
scoredOf(q, options) ==
    [i \in DOMAIN options |-> scoredOption(q, options, options[i])] \o <<>>

\* Array.prototype.sort with (a, b) => a.score - b.score: a stable sort
\* (ECMAScript 2019), modelled as insertion behind the entries that are not larger.
\* Mutant: an unstable sort that puts an entry before its equals.
RECURSIVE insertByScoreUnstable(_, _)
insertByScoreUnstable(sorted, x) ==
    IF sorted = <<>> THEN <<x>>
    ELSE IF x.score <= Head(sorted).score THEN <<x>> \o sorted
    ELSE <<Head(sorted)>> \o insertByScoreUnstable(Tail(sorted), x)

RECURSIVE insertByScore(_, _)
insertByScore(sorted, x) ==
    IF sorted = <<>> THEN <<x>>
    ELSE IF x.score < Head(sorted).score THEN <<x>> \o sorted
    ELSE <<Head(sorted)>> \o insertByScore(Tail(sorted), x)

RECURSIVE sortByScore(_, _)
sortByScore(scored, acc) ==
    IF scored = <<>> THEN acc
    ELSE sortByScore(Tail(scored), insertByScore(acc, Head(scored)))

\* scored.sort(...); return scored[0]?.option ?? null
pickFromScored(scored) ==
    IF Len(scored) = 0 THEN None ELSE Some(sortByScore(scored, <<>>)[1].option)

pickBestMatch(q, options) ==
    IF Len(options) = 0 THEN None
    ELSE Let(LAMBDA scored : pickFromScored(scored), scoredOf(q, options))

-----------------------------------------------------------------------------
(* pickBestMatch on bounded inputs.                                        *)

MaxOptions == 2

PickCandidates == {
    Geo(<<"C","i","n","c","i","n","n","a","t","i">>, <<"O","H">>, <<"U","S">>, 39, -84),
    Geo(<<"C","e","n","t","e","r","v","i","l","l","e">>, <<"O","H">>, <<"U","S">>, 40, -84),
    Geo(<<"S","y","d","n","e","y">>, <<"N","e","w"," ","S","o","u","t","h"," ","W","a","l","e","s">>, <<"A","U">>, -33, 151),
    Geo(<<"S","y","d","n","e","y">>, <<"N","e","w"," ","S","o","u","t","h"," ","W","a","l","e","s">>, <<"A","U">>, -34, 150),
    Geo(<<"S","y","d","n","e","y">>, <<"N","o","v","a"," ","S","c","o","t","i","a">>, <<"C","A">>, 46, -60),
    Geo(<<"S","e","a","t","t","l","e">>, <<"W","a","s","h","i","n","g","t","o","n">>, <<"U","S">>, 47, -122),
    Geo(<<"S","e","a","t","t","l","e">>, <<"J","a","l","i","s","c","o">>, <<"M","X">>, 21, -104),
    Geo(<<"S","e","a","t","t","l","e">>, <<>>, <<"U","S">>, 47, -122)
}

PickQueries == {
    <<"C","i","n","c","i","n","a","t","t","i",","," ","O","H",","," ","U","S">>,
    <<"S","y","d","n","e","y",","," ","A","u","s","t","r","a","l","i","a">>,
    <<"S","y","d","n","e","y",","," ","c","a">>,
    <<"s","y","d","n","e","y">>,
    <<"S","e","a","t","t","l","e",","," ","W","A">>,
    <<"S","e","a","t","l","e",","," ","W","A">>
}

SeqsUpTo(S, n) == UNION { [1..k -> S] : k \in 0..n }

PickInit ==
    /\ pickQuery \in PickQueries
    /\ pickOptions \in SeqsUpTo(PickCandidates, MaxOptions)
    /\ pickCalled = FALSE
    /\ pickScored = <<>>
    /\ pickResult = None
    /\ GeoIdle /\ SugIdle /\ AppIdle /\ HlIdle /\ LevIdle /\ HistIdle

PickBestMatchCall ==
    /\ ~pickCalled
    /\ pickCalled' = TRUE
    /\ pickScored' = scoredOf(pickQuery, pickOptions)
    /\ pickResult' = pickFromScored(pickScored')
    /\ UNCHANGED <<pickQuery, pickOptions, geoVars, sugVars, appVars, hlVars, levVars, histVars>>

PickNext == PickBestMatchCall

SpecPick == PickInit /\ [][PickNext]_vars

-----------------------------------------------------------------------------
(* Location resolution: geocodeByZip, geocode, geocodeLocation.            *)

\* Errors: [kind, status, text]. text carries the query quoted in a message.
Err(kind, status, text) == [kind |-> kind, status |-> status, text |-> text]
\* 'Missing OpenWeather API key. ...'
ConfigurationError == Err("Configuration", 0, <<>>)
\* 'Enter a location to search for a forecast.'
EmptyQueryError == Err("EmptyQuery", 0, <<>>)
\* `Could not find a place that matches "${query}". ...`
NotFoundError(q) == Err("NotFound", 0, q)
\* `OpenWeather error (${response.status}): ${message}`
ProviderError(status) == Err("Provider", status, <<>>)
\* 'No forecast data available right now. Try again soon!' (mobile)
MalformedDataError == Err("MalformedData", 0, <<>>)
\* the runtime's TypeError for reading a property of undefined
TypeError == Err("TypeError", 0, <<>>)

\* A provider request: the endpoint with its text argument or its coordinates.
TextRequest(endpoint, text) == [endpoint |-> endpoint, text |-> text, lat |-> 0, lon |-> 0]
CoordRequest(endpoint, loc) ==
    [endpoint |-> endpoint, text |-> <<>>, lat |-> loc.lat, lon |-> loc.lon]

\* What a completed request produced: kept is the number of candidates the
\* caller kept from a geocoding response.
Response(ok, status, kept) == [ok |-> ok, status |-> status, kept |-> kept]

IsZipChar(c) == IsAlnum(c) \/ c = "-"

RECURSIVE zipCharPrefix(_)
zipCharPrefix(s) ==
    IF s # <<>> /\ IsZipChar(Head(s)) THEN <<Head(s)>> \o zipCharPrefix(Tail(s)) ELSE <<>>

\* (?:\s*,\s*([A-Za-z]{2}))?$ on the rest of the string behind the code
zipCountrySuffix(rest) ==
    LET afterSpaces == trimStart(rest)
        afterComma == IF afterSpaces # <<>> /\ Head(afterSpaces) = ","
                      THEN trimStart(Tail(afterSpaces)) ELSE <<>>
    IN  IF /\ afterSpaces # <<>> /\ Head(afterSpaces) = ","
           /\ Len(afterComma) = 2 /\ IsAlpha(afterComma[1]) /\ IsAlpha(afterComma[2])
        THEN Some(afterComma) ELSE None

\* ZIP_QUERY_REGEX.exec(s): None, or [zip, country] with country None when the
\* optional group did not take part. The web pattern has the lookahead (?=.*\d).
ZIP_QUERY_REGEX(v, s) ==
    LET zip == zipCharPrefix(s)
        rest == SubSeq(s, Len(zip) + 1, Len(s))
        hasDigit == \E i \in DOMAIN s : IsDigit(s[i])
    IN  IF v = "web" /\ ~hasDigit THEN None
        ELSE IF Len(zip) < 3 \/ Len(zip) > 10 THEN None
        ELSE IF rest = <<>> THEN Some([zip |-> zip, country |-> None])
        ELSE IF zipCountrySuffix(rest) # None
             THEN Some([zip |-> zip, country |-> zipCountrySuffix(rest)])
        ELSE None

\* (country ?? 'US').toUpperCase()
zipCountryOf(candidate) ==
    IF candidate.country = None THEN <<"U","S">> ELSE toUpperCase(candidate.country[1])

\* the `${zip},${country}` argument of the postal endpoint
zipRequestOf(candidate) ==
    TextRequest("zip", candidate.zip \o <<",">> \o zipCountryOf(candidate))

filterUsLocations(locations) ==
    SelectSeq(locations, LAMBDA l : toUpperCase(l.country) = <<"U","S">>)

\* the candidates geocodeLocation keeps from a free-text response
keptCandidates(v, results) == IF v = "web" THEN filterUsLocations(results) ELSE results

\* mobile: the state adjustment has no US preference
stateAdjustmentMobile(q, option) ==
    IF matchesStateFromOption(q, option) THEN 0 - STATE_MATCH_BONUS
    ELSE IF hasStateHints(q) THEN STATE_MISMATCH_PENALTY
    ELSE 0

scoredOfMobile(q, options) ==
    [i \in DOMAIN options |->
        [option |-> options[i],
         distance |-> labelDistance(q, options[i]),
         score |-> labelDistance(q, options[i])
                   + countryAdjustment(q, options, options[i])
                   + stateAdjustmentMobile(q, options[i])]] \o <<>>

pickBestMatchOf(v, q, options) ==
    IF v = "web" THEN pickBestMatch(q, options)
    ELSE Let(LAMBDA scored : pickFromScored(scored), scoredOfMobile(q, options))

\* geocode(query) requests encodeURIComponent(query.trim())
geocodeRequestOf(q) == TextRequest("direct", trim(q))

\* the query text quoted by the not-found message
notFoundText(q) == q

-----------------------------------------------------------------------------
(* The extended daily outlook: clampPopPercent, mergeDailyEntries,         *)
(* buildExtendedOutlook, fetchDailyForecast.                               *)
(* A daily entry is [dt, max, min, pop]: dt in epoch seconds, temp.max and *)
(* temp.min nullable (None for a missing or NaN bound), pop nullable and   *)
(* in thousandths (pop = 1.7 is 1700).                                     *)

EXTENDED_OUTLOOK_REQUIRED_DAYS == 10
EXTENDED_OUTLOOK_LIMITED_MESSAGE == "Extended outlook limited by available data."
EXTENDED_OUTLOOK_UNAVAILABLE_MESSAGE ==
    "Extended outlook unavailable for this location right now."
SECONDS_PER_DAY == 86400
HORIZON_LENGTH == 8
HOURLY_OUTLOOK_LIMIT == 12

Max2(a, b) == IF a >= b THEN a ELSE b

\* Mutant: a missing probability counts as no chance of precipitation.
clampPopPercentZeroDefault(pop) ==
    IF pop = None THEN Some(0)
    ELSE Some((Min2(Max2(pop[1], 0), 1000) + 5) \div 10)

\* Math.round(Math.min(Math.max(value, 0), 1) * 100), null for a missing value
clampPopPercent(pop) ==
    IF pop = None THEN None
    ELSE Some((Min2(Max2(pop[1], 0), 1000) + 5) \div 10)

\* x ?? 0 on a nullable number
orZero(x) == IF x = None THEN 0 ELSE x[1]

\* array.slice(0, n)
sliceTo(s, n) == SubSeq(s, 1, Min2(Len(s), n))

\* new Date(entry.dt * 1000).toISOString().slice(0, 10): the UTC calendar date
utcDateKey(entry) == entry.dt \div SECONDS_PER_DAY

\* apply(entries): keyed.set(key, entry) unless the key is present
RECURSIVE applyEntries(_, _)
applyEntries(keyed, entries) ==
    IF entries = <<>> THEN keyed
    ELSE Let(LAMBDA next : applyEntries(next, Tail(entries)),
             IF \E i \in DOMAIN keyed : utcDateKey(keyed[i]) = utcDateKey(Head(entries))
             THEN keyed ELSE Append(keyed, Head(entries)))

\* .sort((a, b) => a.dt - b.dt), a stable sort
RECURSIVE insertByDt(_, _)
insertByDt(sorted, x) ==
    IF sorted = <<>> THEN <<x>>
    ELSE IF x.dt < Head(sorted).dt THEN <<x>> \o sorted
    ELSE <<Head(sorted)>> \o insertByDt(Tail(sorted), x)

RECURSIVE sortByDt(_, _)
sortByDt(entries, acc) ==
    IF entries = <<>> THEN acc
    ELSE Let(LAMBDA next : sortByDt(Tail(entries), next), insertByDt(acc, Head(entries)))

mergeDailyEntries(primary, fallback) ==
    sliceTo(sortByDt(applyEntries(applyEntries(<<>>, primary), fallback), <<>>),
            EXTENDED_OUTLOOK_REQUIRED_DAYS)

\* typeof temp.max === 'number' && !isNaN(temp.max) && the same for temp.min
hasTemperatureBounds(entry) == entry.max # None /\ entry.min # None

dailyOutlookOf(entry, timezoneOffsetSeconds) ==
    [date |-> entry.dt + timezoneOffsetSeconds,
     high |-> entry.max[1],
     low |-> entry.min[1],
     precipitationChancePercent |-> clampPopPercent(entry.pop)]

\* Mutant: the outlook is not cut to 10 days.
buildExtendedOutlookUncapped(dailyEntries, timezoneOffsetSeconds) ==
    LET kept == SelectSeq(dailyEntries, hasTemperatureBounds)
    IN  [i \in DOMAIN kept |-> dailyOutlookOf(kept[i], timezoneOffsetSeconds)] \o <<>>

buildExtendedOutlook(dailyEntries, timezoneOffsetSeconds) ==
    LET kept == sliceTo(SelectSeq(dailyEntries, hasTemperatureBounds), 10)
    IN  [i \in DOMAIN kept |-> dailyOutlookOf(kept[i], timezoneOffsetSeconds)] \o <<>>

\* An hourly entry is [dt, temp, pop], temp nullable.
hourlyOutlookOf(entry, timezoneOffsetSeconds) ==
    [time |-> entry.dt + timezoneOffsetSeconds,
     temperature |-> entry.temp[1],
     precipitationChancePercent |-> clampPopPercent(entry.pop)]

buildHourlyOutlook(hourlyEntries, timezoneOffsetSeconds) ==
    LET kept == sliceTo(SelectSeq(hourlyEntries, LAMBDA entry : entry.temp # None),
                        HOURLY_OUTLOOK_LIMIT)
    IN  [i \in DOMAIN kept |-> hourlyOutlookOf(kept[i], timezoneOffsetSeconds)] \o <<>>

\* hourlyOutlook stays undefined without a daily response or without
\* hourly entries in it
hourlyOutlookFor(extendedResponse) ==
    IF extendedResponse = None THEN None
    ELSE IF Len(extendedResponse[1].hourly) = 0 THEN None
    ELSE Some(buildHourlyOutlook(extendedResponse[1].hourly,
                                 orZero(extendedResponse[1].timezone_offset)))

\* normalizeLegacyDailyEntry renames the wind fields only; dt, temp and pop
\* keep their names.
normalizeLegacyDailyEntry(entry) ==
    [dt |-> entry.dt, max |-> entry.max, min |-> entry.min, pop |-> entry.pop]

\* The value fetchDailyForecast returns once both sources have answered.
\* primary: [status, daily, hourly, timezone_offset]; fallback: [status, list, timezone].
dailyForecastOf(primary, fallback) ==
    IF fallback.status # "ok" \/ Len(fallback.list) = 0
    THEN (IF primary.status = "ok"
          THEN Some([daily |-> primary.daily, hourly |-> primary.hourly,
                     timezone_offset |-> primary.timezone_offset])
          ELSE None)
    ELSE LET fallbackAsDaily ==
                 [i \in DOMAIN fallback.list |->
                     normalizeLegacyDailyEntry(fallback.list[i])] \o <<>>
             timezoneOffset == orZero(fallback.timezone)
         IN  IF primary.status # "ok"
             THEN Some([daily |-> fallbackAsDaily, hourly |-> <<>>,
                        timezone_offset |-> Some(timezoneOffset)])
             ELSE Some([daily |-> mergeDailyEntries(primary.daily, fallbackAsDaily),
                        hourly |-> primary.hourly,
                        timezone_offset |->
                            IF primary.timezone_offset # None
                            THEN primary.timezone_offset ELSE Some(timezoneOffset)])

unavailableOutlook ==
    [days |-> <<>>, isComplete |-> FALSE,
     message |-> Some(EXTENDED_OUTLOOK_UNAVAILABLE_MESSAGE)]

\* Mutant: an empty outlook is reported without the advisory message.
extendedOutlookOfSilent(extendedResponse) ==
    IF extendedResponse = None
    THEN [days |-> <<>>, isComplete |-> FALSE, message |-> None]
    ELSE LET days == buildExtendedOutlook(extendedResponse[1].daily,
                                          orZero(extendedResponse[1].timezone_offset))
         IN  [days |-> days,
              isComplete |-> Len(days) >= EXTENDED_OUTLOOK_REQUIRED_DAYS,
              message |-> IF Len(days) >= EXTENDED_OUTLOOK_REQUIRED_DAYS
                          THEN None ELSE Some(EXTENDED_OUTLOOK_LIMITED_MESSAGE)]

\* the extendedOutlook of fetchOptimisticForecast
extendedOutlookOf(extendedResponse) ==
    IF extendedResponse = None THEN unavailableOutlook
    ELSE LET days == buildExtendedOutlook(extendedResponse[1].daily,
                                          orZero(extendedResponse[1].timezone_offset))
         IN  IF Len(days) > 0
             THEN [days |-> days,
                   isComplete |-> Len(days) >= EXTENDED_OUTLOOK_REQUIRED_DAYS,
                   message |-> IF Len(days) >= EXTENDED_OUTLOOK_REQUIRED_DAYS
                               THEN None ELSE Some(EXTENDED_OUTLOOK_LIMITED_MESSAGE)]
             ELSE unavailableOutlook

formatUsLocationLabel(loc) ==
    joinCommaSpace(
        <<loc.name>>
        \o (IF loc.state = <<>> THEN <<>>
            ELSE IF MapHas(US_STATE_NAME_TO_CODE, toLowerCase(loc.state))
                 THEN <<toUpperCase(MapGet(US_STATE_NAME_TO_CODE, toLowerCase(loc.state)))>>
            ELSE IF Len(loc.state) = 2 THEN <<toUpperCase(loc.state)>>
            ELSE <<loc.state>>))

RECURSIVE maxOf(_)
maxOf(values) ==
    IF Len(values) = 1 THEN values[1] ELSE Max2(values[1], maxOf(Tail(values)))

RECURSIVE minOf(_)
minOf(values) ==
    IF Len(values) = 1 THEN values[1] ELSE Min2(values[1], minOf(Tail(values)))

\* Mutant: high and low are taken over the whole series, not the horizon.
webForecastOfWholeSeries(loc, list, extendedResponse) ==
    LET first == list[1]
        temps == [i \in DOMAIN list |-> list[i].temp] \o <<>>
    IN  [locationLabel |-> formatUsLocationLabel(loc),
         temperature |-> [current |-> first.temp, feelsLike |-> first.feels_like,
                          high |-> maxOf(temps), low |-> minOf(temps)],
         extendedOutlook |-> Some(extendedOutlookOf(extendedResponse)),
         hourlyOutlook |-> hourlyOutlookFor(extendedResponse),
         coordinates |-> [lat |-> loc.lat, lon |-> loc.lon]]

\* the forecast object of the web fetchOptimisticForecast, for a non-empty series
webForecastOf(loc, list, extendedResponse) ==
    LET horizon == sliceTo(list, HORIZON_LENGTH)
        first == horizon[1]
        temps == [i \in DOMAIN horizon |-> horizon[i].temp] \o <<>>
    IN  [locationLabel |-> formatUsLocationLabel(loc),
         temperature |-> [current |-> first.temp, feelsLike |-> first.feels_like,
                          high |-> maxOf(temps), low |-> minOf(temps)],
         extendedOutlook |-> Some(extendedOutlookOf(extendedResponse)),
         hourlyOutlook |-> hourlyOutlookFor(extendedResponse),
         coordinates |-> [lat |-> loc.lat, lon |-> loc.lon]]

\* the forecast object of the mobile fetchOptimisticForecast, for a non-empty series
mobileForecastOf(response) ==
    LET window == sliceTo(response.list, HORIZON_LENGTH)
        current == response.list[1]
    IN  [locationLabel |->
             joinCommaSpace(<<response.city.name>>
                            \o (IF response.city.country # <<>>
                                THEN <<response.city.country>> ELSE <<>>)),
         temperature |-> [current |-> current.temp, feelsLike |-> current.feels_like,
                          high |-> maxOf([i \in DOMAIN window |-> window[i].temp_max] \o <<>>),
                          low |-> minOf([i \in DOMAIN window |-> window[i].temp_min] \o <<>>)]]

-----------------------------------------------------------------------------
(* One call of fetchOptimisticForecast(geoQuery): each action is the code  *)
(* that runs between two awaits; the provider's answer is the action's     *)
(* input.                                                                  *)

MaxGeoResults == 2

GeoQueries == {
    <<>>,
    <<" "," ">>,
    <<"9","4","1","0","3">>,
    <<"9","4","1","0","3",","," ","p","t">>,
    <<"P","a","r","i","s">>,
    <<" ","P","a","r","i","s",","," ","T","X"," ">>,
    <<"L","i","s","b","o","n",","," ","P","T">>
}

GeoCandidates == {
    Geo(<<"P","a","r","i","s">>, <<"T","e","x","a","s">>, <<"U","S">>, 33, -95),
    Geo(<<"P","a","r","i","s">>, <<"K","e","n","t","u","c","k","y">>, <<"U","S">>, 38, -84),
    Geo(<<"P","a","r","i","s">>, <<"I","l","e","-","d","e","-","F","r","a","n","c","e">>, <<"F","R">>, 48, 2),
    Geo(<<"L","i","s","b","o","n">>, <<>>, <<"P","T">>, 38, -9)
}

\* answers of the postal endpoint: {name, lat, lon, country}
ZipResults == {
    Geo(<<"S","a","n"," ","F","r","a","n","c","i","s","c","o">>, <<>>, <<"U","S">>, 37, -122),
    Geo(<<"L","i","s","b","o","a">>, <<>>, <<"P","T">>, 38, -9)
}

ProviderStatuses == {401, 500}

SeriesEntry(t) == [temp |-> t, feels_like |-> t - 2, temp_min |-> t - 1, temp_max |-> t + 1]
SeriesOf(temps) == [i \in DOMAIN temps |-> SeriesEntry(temps[i])] \o <<>>

\* short-range responses: forecast.list and forecast.city
ForecastResponses == {
    [list |-> SeriesOf(temps),
     city |-> [name |-> <<"P","a","r","i","s">>, country |-> <<"U","S">>, timezone |-> -18000]] :
        temps \in { <<>>, <<12>>, <<15, 11, 18>>, <<11, 10, 12, 13, 14, 15, 16, 17, 25>> }
}

\* n consecutive daily entries from startDay on, at the given second of the day;
\* the entries at the positions in `invalid` lack a temperature bound.
DailyEntries(startDay, n, secondOfDay, invalid) ==
    [i \in 1..n |->
        [dt |-> (startDay + i - 1) * SECONDS_PER_DAY + secondOfDay,
         max |-> IF i \in invalid THEN None ELSE Some(20 + i),
         min |-> IF i \in invalid THEN None ELSE Some(10 + i),
         pop |-> IF i % 3 = 0 THEN None
                 ELSE IF i = 1 THEN Some(0 - 50)
                 ELSE Some(i * 170)]] \o <<>>

\* n consecutive hourly entries; the entries at the positions in `invalid`
\* lack the temperature.
HourlyEntries(n, invalid) ==
    [i \in 1..n |->
        [dt |-> i * 3600,
         temp |-> IF i \in invalid THEN None ELSE Some(10 + i),
         pop |-> IF i % 4 = 0 THEN None
                 ELSE IF i = 2 THEN Some(0 - 300)
                 ELSE Some(i * 245)]] \o <<>>

\* a legacy list out of order, with two entries on day 1
LegacyUnordered ==
    <<DailyEntries(3, 1, 61200, {})[1],
      DailyEntries(1, 1, 61200, {})[1],
      DailyEntries(1, 1, 7200, {})[1]>>

PrimaryResponses == {
    [daily |-> DailyEntries(0, 0, 43200, {}), hourly |-> HourlyEntries(0, {}),
     timezone_offset |-> Some(3600)],
    [daily |-> DailyEntries(0, 3, 43200, {}), hourly |-> HourlyEntries(5, {3}),
     timezone_offset |-> Some(3600)],
    [daily |-> DailyEntries(0, 3, 43200, {1, 2, 3}), hourly |-> HourlyEntries(0, {}),
     timezone_offset |-> None],
    [daily |-> DailyEntries(0, 10, 43200, {}), hourly |-> HourlyEntries(14, {1}),
     timezone_offset |-> Some(3600)],
    [daily |-> DailyEntries(0, 10, 43200, {2}), hourly |-> HourlyEntries(2, {1, 2}),
     timezone_offset |-> Some(3600)],
    [daily |-> DailyEntries(0, 12, 43200, {2}), hourly |-> HourlyEntries(3, {}),
     timezone_offset |-> None]
}

LegacyResponses == {
    [list |-> DailyEntries(0, 0, 61200, {}), timezone |-> Some(-18000)],
    [list |-> DailyEntries(0, 12, 61200, {}), timezone |-> Some(-18000)],
    [list |-> DailyEntries(2, 5, 61200, {1}), timezone |-> None],
    [list |-> DailyEntries(0, 2, 61200, {1, 2}), timezone |-> Some(-18000)],
    [list |-> LegacyUnordered, timezone |-> Some(3600)]
}

Init ==
    /\ variant \in {"web", "mobile"}
    /\ hasApiKey \in BOOLEAN
    /\ geoQuery \in GeoQueries
    /\ pc = "start"
    /\ requests = <<>>
    /\ responses = <<>>
    /\ location = None
    /\ series = None
    /\ primaryDaily = [status |-> "not-called", daily |-> <<>>, hourly |-> <<>>,
                       timezone_offset |-> None]
    /\ legacyDaily = [status |-> "not-called", list |-> <<>>, timezone |-> None]
    /\ forecastResult = None
    /\ forecastError = None
    /\ PickIdle /\ SugIdle /\ AppIdle /\ HlIdle /\ LevIdle /\ HistIdle

trimmedQuery == trim(geoQuery)
cityOnly == beforeFirstComma(trimmedQuery)

\* Mutant: the blank test looks at the untrimmed query.
isBlankQueryUntrimmed(q) == q = <<>>

\* !trimmedQuery, with trimmedQuery = query.trim()
isBlankQuery(q) == trim(q) = <<>>

\* Mutant: a failed request leaves a forecast behind.
RejectsWithPartial(e) ==
    /\ pc' = "failed"
    /\ forecastError' = Some(e)
    /\ forecastResult' = Some([locationLabel |-> <<>>])

\* the promise returned by fetchOptimisticForecast rejects with e
Rejects(e) ==
    /\ pc' = "failed"
    /\ forecastError' = Some(e)
    /\ forecastResult' = None

\* Mutant: the short-range and the primary daily request are issued together.
ResolvedRequestingBoth(loc, issued) ==
    /\ location' = Some(loc)
    /\ requests' = issued \o <<CoordRequest("forecast", loc), CoordRequest("onecall", loc)>>
    /\ pc' = "awaitForecast"
    /\ UNCHANGED <<forecastResult, forecastError>>

\* geocodeLocation returned loc: fetchForecast(location.lat, location.lon, units)
Resolved(loc, issued) ==
    /\ location' = Some(loc)
    /\ requests' = Append(issued, CoordRequest("forecast", loc))
    /\ pc' = "awaitForecast"
    /\ UNCHANGED <<forecastResult, forecastError>>

\* fetchOptimisticForecast up to the first await of geocodeLocation
FetchStart ==
    /\ pc = "start"
    /\ IF isBlankQuery(geoQuery)
       THEN Rejects(EmptyQueryError) /\ UNCHANGED requests
       ELSE IF ~hasApiKey
       THEN Rejects(ConfigurationError) /\ UNCHANGED requests
       ELSE IF ZIP_QUERY_REGEX(variant, trimmedQuery) # None
       THEN /\ requests' = Append(requests,
                                  zipRequestOf(ZIP_QUERY_REGEX(variant, trimmedQuery)[1]))
            /\ pc' = "awaitZip"
            /\ UNCHANGED <<forecastResult, forecastError>>
       ELSE /\ requests' = Append(requests, geocodeRequestOf(trimmedQuery))
            /\ pc' = "awaitDirect"
            /\ UNCHANGED <<forecastResult, forecastError>>
    /\ UNCHANGED <<variant, hasApiKey, geoQuery, responses, location, series, primaryDaily, legacyDaily>>
    /\ UNCHANGED <<pickVars, sugVars, appVars, hlVars, levVars, histVars>>

\* geocodeByZip resolved with a location: geocodeLocation returns it at once
ZipResponseOk ==
    /\ pc = "awaitZip"
    /\ \E zipResult \in ZipResults :
          /\ responses' = Append(responses, Response(TRUE, 200, 1))
          /\ Resolved(zipResult, requests)
    /\ UNCHANGED <<variant, hasApiKey, geoQuery, series, primaryDaily, legacyDaily>>
    /\ UNCHANGED <<pickVars, sugVars, appVars, hlVars, levVars, histVars>>

\* Mutant: a failed postal lookup rejects geocodeLocation.
ZipResponseFailPropagates ==
    /\ pc = "awaitZip"
    /\ \E status \in ProviderStatuses :
          /\ responses' = Append(responses, Response(FALSE, status, 0))
          /\ Rejects(ProviderError(status))
    /\ UNCHANGED <<variant, hasApiKey, geoQuery, requests, location, series, primaryDaily, legacyDaily>>
    /\ UNCHANGED <<pickVars, sugVars, appVars, hlVars, levVars, histVars>>

\* geocodeByZip caught the failure and returned null: geocode(trimmedQuery)
ZipResponseFail ==
    /\ pc = "awaitZip"
    /\ \E status \in ProviderStatuses :
          responses' = Append(responses, Response(FALSE, status, 0))
    /\ requests' = Append(requests, geocodeRequestOf(trimmedQuery))
    /\ pc' = "awaitDirect"
    /\ UNCHANGED <<variant, hasApiKey, geoQuery, location, series, primaryDaily, legacyDaily,
                   forecastResult, forecastError>>
    /\ UNCHANGED <<pickVars, sugVars, appVars, hlVars, levVars, histVars>>

\* a free-text lookup (the first or the fallback) failed: the error propagates
DirectResponseFail ==
    /\ pc \in {"awaitDirect", "awaitFallback"}
    /\ \E status \in ProviderStatuses :
          /\ responses' = Append(responses, Response(FALSE, status, 0))
          /\ Rejects(ProviderError(status))
    /\ UNCHANGED <<variant, hasApiKey, geoQuery, requests, location, series, primaryDaily, legacyDaily>>
    /\ UNCHANGED <<pickVars, sugVars, appVars, hlVars, levVars, histVars>>

\* Mutant: the fallback lookup is issued for every query without a match.
needsFallbackAlways(match) == match = None

\* !match && trimmedQuery.includes(',')
needsFallback(match) == match = None /\ includes(trimmedQuery, <<",">>)

\* the first free-text lookup answered
DirectResponseOk ==
    /\ pc = "awaitDirect"
    /\ \E results \in SeqsUpTo(GeoCandidates, MaxGeoResults) :
          LET primaryResults == keptCandidates(variant, results)
              match == pickBestMatchOf(variant, trimmedQuery, primaryResults)
          IN  /\ responses' = Append(responses, Response(TRUE, 200, Len(primaryResults)))
              /\ IF needsFallback(match)
                 THEN /\ requests' = Append(requests, geocodeRequestOf(cityOnly))
                      /\ pc' = "awaitFallback"
                      /\ UNCHANGED <<location, forecastResult, forecastError>>
                 ELSE IF match = None
                 THEN Rejects(NotFoundError(notFoundText(geoQuery)))
                      /\ UNCHANGED <<requests, location>>
                 ELSE Resolved(match[1], requests)
    /\ UNCHANGED <<variant, hasApiKey, geoQuery, series, primaryDaily, legacyDaily>>
    /\ UNCHANGED <<pickVars, sugVars, appVars, hlVars, levVars, histVars>>

\* the fallback lookup for the text before the first comma answered
FallbackResponseOk ==
    /\ pc = "awaitFallback"
    /\ \E results \in SeqsUpTo(GeoCandidates, MaxGeoResults) :
          LET fallbackResults == keptCandidates(variant, results)
              match == pickBestMatchOf(variant, cityOnly, fallbackResults)
          IN  /\ responses' = Append(responses, Response(TRUE, 200, Len(fallbackResults)))
              /\ IF match = None
                 THEN Rejects(NotFoundError(notFoundText(geoQuery)))
                      /\ UNCHANGED <<requests, location>>
                 ELSE Resolved(match[1], requests)
    /\ UNCHANGED <<variant, hasApiKey, geoQuery, series, primaryDaily, legacyDaily>>
    /\ UNCHANGED <<pickVars, sugVars, appVars, hlVars, levVars, histVars>>

\* the rest of fetchOptimisticForecast once fetchDailyForecast returned
\* extendedResponse: first = horizon[0] is undefined for an empty series, and
\* first.main.temp then raises the runtime's TypeError
Completes(extendedResponse) ==
    IF series[1].list = <<>>
    THEN Rejects(TypeError)
    ELSE /\ pc' = "done"
         /\ forecastResult' = Some(webForecastOf(location[1], series[1].list, extendedResponse))
         /\ forecastError' = None

\* fetchForecast resolved. mobile: the empty-series check, then the forecast
\* object; web: fetchDailyForecast starts with the primary daily request
ForecastResponseOk ==
    /\ pc = "awaitForecast"
    /\ \E forecastResponse \in ForecastResponses :
          /\ series' = Some(forecastResponse)
          /\ responses' = Append(responses, Response(TRUE, 200, Len(forecastResponse.list)))
          /\ IF variant = "mobile"
             THEN /\ IF forecastResponse.list = <<>>
                     THEN Rejects(MalformedDataError)
                     ELSE /\ pc' = "done"
                          /\ forecastResult' = Some(mobileForecastOf(forecastResponse))
                          /\ forecastError' = None
                  /\ UNCHANGED requests
             ELSE /\ requests' = Append(requests, CoordRequest("onecall", location[1]))
                  /\ pc' = "awaitPrimary"
                  /\ UNCHANGED <<forecastResult, forecastError>>
    /\ UNCHANGED <<variant, hasApiKey, geoQuery, location, primaryDaily, legacyDaily>>
    /\ UNCHANGED <<pickVars, sugVars, appVars, hlVars, levVars, histVars>>

\* fetchForecast rejected: the error propagates
ForecastResponseFail ==
    /\ pc = "awaitForecast"
    /\ \E status \in ProviderStatuses :
          /\ responses' = Append(responses, Response(FALSE, status, 0))
          /\ Rejects(ProviderError(status))
    /\ UNCHANGED <<variant, hasApiKey, geoQuery, requests, location, series,
                   primaryDaily, legacyDaily>>
    /\ UNCHANGED <<pickVars, sugVars, appVars, hlVars, levVars, histVars>>

\* fetchPrimaryDailyForecast returned `primary` (status "failed" for null):
\* it is returned as it is when it has EXTENDED_OUTLOOK_REQUIRED_DAYS entries,
\* else fetchLegacyDailyForecast is called
PrimaryReturned(primary, response) ==
    /\ pc = "awaitPrimary"
    /\ primaryDaily' = primary
    /\ responses' = Append(responses, response)
    /\ IF primary.status = "ok" /\ Len(primary.daily) >= EXTENDED_OUTLOOK_REQUIRED_DAYS
       THEN /\ Completes(Some([daily |-> primary.daily, hourly |-> primary.hourly,
                               timezone_offset |-> primary.timezone_offset]))
            /\ UNCHANGED requests
       ELSE /\ requests' = Append(requests, CoordRequest("daily", location[1]))
            /\ pc' = "awaitLegacy"
            /\ UNCHANGED <<forecastResult, forecastError>>
    /\ UNCHANGED <<variant, hasApiKey, geoQuery, location, series, legacyDaily>>
    /\ UNCHANGED <<pickVars, sugVars, appVars, hlVars, levVars, histVars>>

PrimaryResponseOk ==
    \E r \in PrimaryResponses :
        PrimaryReturned([status |-> "ok", daily |-> r.daily, hourly |-> r.hourly,
                         timezone_offset |-> r.timezone_offset],
                        Response(TRUE, 200, Len(r.daily)))

PrimaryResponseFail ==
    \E status \in ProviderStatuses :
        PrimaryReturned([status |-> "failed", daily |-> <<>>, hourly |-> <<>>,
                         timezone_offset |-> None],
                        Response(FALSE, status, 0))

\* fetchLegacyDailyForecast returned `fallback` (status "failed" for null):
\* fetchDailyForecast returns and fetchOptimisticForecast runs to its end
LegacyReturned(fallback, response) ==
    /\ pc = "awaitLegacy"
    /\ legacyDaily' = fallback
    /\ responses' = Append(responses, response)
    /\ Completes(dailyForecastOf(primaryDaily, fallback))
    /\ UNCHANGED <<variant, hasApiKey, geoQuery, requests, location, series, primaryDaily>>
    /\ UNCHANGED <<pickVars, sugVars, appVars, hlVars, levVars, histVars>>

LegacyResponseOk ==
    \E r \in LegacyResponses :
        LegacyReturned([status |-> "ok", list |-> r.list, timezone |-> r.timezone],
                       Response(TRUE, 200, Len(r.list)))

LegacyResponseFail ==
    \E status \in ProviderStatuses :
        LegacyReturned([status |-> "failed", list |-> <<>>, timezone |-> None],
                       Response(FALSE, status, 0))

Next ==
    \/ FetchStart
    \/ ZipResponseOk
    \/ ZipResponseFail
    \/ DirectResponseOk
    \/ DirectResponseFail
    \/ FallbackResponseOk
    \/ ForecastResponseOk
    \/ ForecastResponseFail
    \/ PrimaryResponseOk
    \/ PrimaryResponseFail
    \/ LegacyResponseOk
    \/ LegacyResponseFail

Spec == Init /\ [][Next]_vars

-----------------------------------------------------------------------------
(* One call of searchLocationSuggestions(sugQuery) of the web service.     *)

MIN_SUGGESTION_QUERY_LENGTH == 2
MAX_SUGGESTIONS == 5

SugQueries == {
    <<"P">>,
    <<"9","4","1","0","3">>,
    <<"9","4","1","0","3",","," ","u","s">>,
    <<"9","4","1","0","3",","," ","p","t">>,
    <<"P","a","r","i","s">>,
    <<" ","P","a","r","i","s",","," ","T","X"," ">>,
    <<"P",","," ","T","X">>
}

ParisTx == Geo(<<"P","a","r","i","s">>, <<"T","e","x","a","s">>, <<"U","S">>, 33, -95)
ParisKy == Geo(<<"P","a","r","i","s">>, <<"K","e","n","t","u","c","k","y">>, <<"U","S">>, 38, -84)
ParisFr == Geo(<<"P","a","r","i","s">>, <<"I","l","e","-","d","e","-","F","r","a","n","c","e">>, <<"F","R">>, 48, 2)
\* a second place of the same name in the same state
ParisTxNorth == Geo(<<"P","a","r","i","s">>, <<"T","e","x","a","s">>, <<"U","S">>, 34, -95)
SugCandidates == { ParisTx, ParisFr }

\* longer answers of the free-text endpoint (it returns up to 5 candidates):
\* enough distinct places to pass MAX_SUGGESTIONS, and an entry that differs
\* from ParisTx in case and padding only
SugLongLists == {
    <<ParisKy, ParisTx>>,
    <<ParisTx, ParisKy, Geo(<<"P","a","r","i","s">>, <<"I","l","l","i","n","o","i","s">>, <<"U","S">>, 39, -87)>>,
    <<ParisKy, Geo(<<"P","a","r","i","s">>, <<"T","e","n","n","e","s","s","e","e">>, <<"U","S">>, 36, -88),
      Geo(<<"P","a","r","i","s">>, <<"A","r","k","a","n","s","a","s">>, <<"U","S">>, 35, -93)>>,
    <<Geo(<<"p","a","r","i","s"," ">>, <<" ","T","E","X","A","S">>, <<"u","s">>, 33, -95), ParisTx, ParisFr>>,
    <<ParisTx, ParisTxNorth>>
}

\* what a free-text request can be answered with
SugGeocodeResults == SeqsUpTo(SugCandidates, MaxGeoResults) \cup SugLongLists

\* an entry of sugResponses
SugResponse(source, ok, results) == [source |-> source, ok |-> ok, results |-> results]

Suggestion(loc, searchValue) == [location |-> loc, searchValue |-> searchValue]

buildLocationKey(loc) ==
    <<toLowerCase(trim(loc.name)), toLowerCase(trim(loc.state)),
      toUpperCase(trim(loc.country)), loc.lat, loc.lon>>

\* Mutant: every item is kept.
dedupeSuggestionsOff(items) == [i \in DOMAIN items |-> [item |-> items[i], idx |-> i]] \o <<>>

\* items.filter: an item is kept when no earlier item has its location key
dedupeSuggestions(items) ==
    SelectSeq([i \in DOMAIN items |-> [item |-> items[i], idx |-> i]] \o <<>>,
              LAMBDA x : \A j \in 1..(x.idx - 1) :
                            buildLocationKey(items[j].location)
                                # buildLocationKey(x.item.location))

unwrapItems(indexed) == [i \in DOMAIN indexed |-> indexed[i].item] \o <<>>

\* return dedupeSuggestions(suggestions).slice(0, 5)
suggestionsReturned(items) == sliceTo(unwrapItems(dedupeSuggestions(items)), MAX_SUGGESTIONS)

toSuggestions(results) ==
    [i \in DOMAIN results |-> Suggestion(results[i], formatUsLocationLabel(results[i]))] \o <<>>

\* bestPrimary first, then the other results in the provider's order
\* (result !== bestPrimary compares object identity: only the entry that
\* pickBestMatch returned, the first one with the best score, is left out)
primarySuggestions(q, primaryResults) ==
    LET bestPrimary == pickBestMatch(q, primaryResults)
    IN  IF bestPrimary = None THEN toSuggestions(primaryResults)
        ELSE LET bestIndex == CHOOSE i \in DOMAIN primaryResults :
                                  /\ primaryResults[i] = bestPrimary[1]
                                  /\ \A j \in 1..(i - 1) : primaryResults[j] # bestPrimary[1]
                 others == [i \in 1..(Len(primaryResults) - 1) |->
                               IF i < bestIndex THEN primaryResults[i]
                               ELSE primaryResults[i + 1]] \o <<>>
             IN  toSuggestions(<<bestPrimary[1]>> \o others)

sugTrimmedQuery == trim(sugQuery)
sugZipCandidate == ZIP_QUERY_REGEX("web", sugTrimmedQuery)
\* const fallbackQuery = cityOnly.trim()
fallbackQuery == trim(beforeFirstComma(sugTrimmedQuery))

\* trimmedQuery.includes(',') && fallbackQuery.length >= 2
\*   && fallbackQuery.toLowerCase() !== trimmedQuery.toLowerCase()
wantsFallback ==
    /\ includes(sugTrimmedQuery, <<",">>)
    /\ Len(fallbackQuery) >= MIN_SUGGESTION_QUERY_LENGTH
    /\ toLowerCase(fallbackQuery) # toLowerCase(sugTrimmedQuery)

SugInit ==
    /\ sugQuery \in SugQueries
    /\ hasApiKey \in BOOLEAN
    /\ sugPc = "start"
    /\ sugRequests = <<>>
    /\ sugFailed = {}
    /\ sugResponses = <<>>
    /\ sugItems = <<>>
    /\ sugResult = None
    /\ sugError = None
    /\ PickIdle /\ GeoCallIdle /\ AppIdle /\ HlIdle /\ LevIdle /\ HistIdle

SugReturns(items) ==
    /\ sugPc' = "done"
    /\ sugResult' = Some(suggestionsReturned(items))
    /\ sugError' = None

SugRejects(e) ==
    /\ sugPc' = "failed"
    /\ sugError' = Some(e)
    /\ sugResult' = None

\* await geocode(text): assertApiKey throws before the request is built
SugGeocode(text, nextPc) ==
    IF ~hasApiKey
    THEN SugRejects(ConfigurationError) /\ UNCHANGED sugRequests
    ELSE /\ sugRequests' = Append(sugRequests, geocodeRequestOf(text))
         /\ sugPc' = nextPc
         /\ UNCHANGED <<sugResult, sugError>>

\* searchLocationSuggestions up to its first await
SuggestStart ==
    /\ sugPc = "start"
    /\ IF Len(sugTrimmedQuery) < MIN_SUGGESTION_QUERY_LENGTH
       THEN /\ sugPc' = "done"
            /\ sugResult' = Some(<<>>)
            /\ UNCHANGED <<sugRequests, sugError>>
       ELSE IF sugZipCandidate # None /\ zipCountryOf(sugZipCandidate[1]) = <<"U","S">>
       THEN IF ~hasApiKey
            THEN SugRejects(ConfigurationError) /\ UNCHANGED sugRequests
            ELSE /\ sugRequests' = Append(sugRequests, zipRequestOf(sugZipCandidate[1]))
                 /\ sugPc' = "awaitZip"
                 /\ UNCHANGED <<sugResult, sugError>>
       ELSE SugGeocode(sugTrimmedQuery, "awaitDirect")
    /\ UNCHANGED <<sugQuery, sugFailed, sugResponses, sugItems>>
    /\ UNCHANGED <<pickVars, geoVars, appVars, hlVars, levVars, histVars>>

\* geocodeByZip resolved: the postal suggestion is pushed, geocode(trimmedQuery)
SugZipResponseOk ==
    /\ sugPc = "awaitZip"
    /\ \E zipResult \in ZipResults :
          /\ sugItems' = Append(sugItems, Suggestion(zipResult, sugZipCandidate[1].zip))
          /\ sugResponses' = Append(sugResponses, SugResponse("zip", TRUE, <<zipResult>>))
    /\ SugGeocode(sugTrimmedQuery, "awaitDirect")
    /\ UNCHANGED <<sugQuery, sugFailed>>
    /\ UNCHANGED <<pickVars, geoVars, appVars, hlVars, levVars, histVars>>

\* geocodeByZip caught the failure and returned null
SugZipResponseFail ==
    /\ sugPc = "awaitZip"
    /\ sugFailed' = sugFailed \cup {"zip"}
    /\ sugResponses' = Append(sugResponses, SugResponse("zip", FALSE, <<>>))
    /\ SugGeocode(sugTrimmedQuery, "awaitDirect")
    /\ UNCHANGED <<sugQuery, sugItems>>
    /\ UNCHANGED <<pickVars, geoVars, appVars, hlVars, levVars, histVars>>

\* geocode(trimmedQuery) resolved
SugDirectResponseOk ==
    /\ sugPc = "awaitDirect"
    /\ \E results \in SugGeocodeResults :
          LET items == sugItems \o primarySuggestions(sugTrimmedQuery,
                                                      filterUsLocations(results))
          IN  /\ sugItems' = items
              /\ sugResponses' = Append(sugResponses, SugResponse("direct", TRUE, results))
              /\ IF wantsFallback
                 THEN SugGeocode(fallbackQuery, "awaitFallback")
                 ELSE SugReturns(items) /\ UNCHANGED sugRequests
    /\ UNCHANGED <<sugQuery, sugFailed>>
    /\ UNCHANGED <<pickVars, geoVars, appVars, hlVars, levVars, histVars>>

\* geocode(trimmedQuery) rejected: nothing catches it
SugDirectResponseFail ==
    /\ sugPc = "awaitDirect"
    /\ sugFailed' = sugFailed \cup {"direct"}
    /\ sugResponses' = Append(sugResponses, SugResponse("direct", FALSE, <<>>))
    /\ \E status \in ProviderStatuses : SugRejects(ProviderError(status))
    /\ UNCHANGED <<sugQuery, sugRequests, sugItems>>
    /\ UNCHANGED <<pickVars, geoVars, appVars, hlVars, levVars, histVars>>

\* geocode(fallbackQuery) resolved
SugFallbackResponseOk ==
    /\ sugPc = "awaitFallback"
    /\ \E results \in SugGeocodeResults :
          LET items == sugItems \o toSuggestions(filterUsLocations(results))
          IN  /\ sugItems' = items
              /\ sugResponses' = Append(sugResponses, SugResponse("fallback", TRUE, results))
              /\ SugReturns(items)
    /\ UNCHANGED <<sugQuery, sugRequests, sugFailed>>
    /\ UNCHANGED <<pickVars, geoVars, appVars, hlVars, levVars, histVars>>

\* geocode(fallbackQuery) rejected: nothing catches it
SugFallbackResponseFail ==
    /\ sugPc = "awaitFallback"
    /\ sugFailed' = sugFailed \cup {"fallback"}
    /\ sugResponses' = Append(sugResponses, SugResponse("fallback", FALSE, <<>>))
    /\ \E status \in ProviderStatuses : SugRejects(ProviderError(status))
    /\ UNCHANGED <<sugQuery, sugRequests, sugItems>>
    /\ UNCHANGED <<pickVars, geoVars, appVars, hlVars, levVars, histVars>>

\* What the provider answered to a request during the call: None when the
\* call did not make that request.
recordedAnswer(request) ==
    IF \E k \in DOMAIN sugResponses : sugRequests[k] = request
    THEN Some(sugResponses[CHOOSE k \in DOMAIN sugResponses :
                               /\ sugRequests[k] = request
                               /\ \A j \in 1..(k - 1) : sugRequests[j] # request])
    ELSE None

\* geocodeLocation(searchValue) against the answers recorded in sugResponses.
\* known is FALSE when it makes a request the call did not make; match is the
\* location it returns, None when it throws.
Resubmitted(known, match) == [known |-> known, match |-> match]

geocodeLocationFallback(resubmitted) ==
    LET cityPart == beforeFirstComma(resubmitted)
        answer == recordedAnswer(geocodeRequestOf(cityPart))
    IN  IF ~includes(resubmitted, <<",">>) THEN Resubmitted(TRUE, None)
        ELSE IF answer = None THEN Resubmitted(FALSE, None)
        ELSE IF ~answer[1].ok THEN Resubmitted(TRUE, None)
        ELSE Resubmitted(TRUE, pickBestMatch(cityPart, filterUsLocations(answer[1].results)))

geocodeLocationDirect(resubmitted) ==
    LET answer == recordedAnswer(geocodeRequestOf(resubmitted))
    IN  IF answer = None THEN Resubmitted(FALSE, None)
        ELSE IF ~answer[1].ok THEN Resubmitted(TRUE, None)
        ELSE Let(LAMBDA match : IF match # None THEN Resubmitted(TRUE, match)
                                ELSE geocodeLocationFallback(resubmitted),
                 pickBestMatch(resubmitted, filterUsLocations(answer[1].results)))

geocodeLocationAgainst(searchValue) ==
    LET resubmitted == trim(searchValue)
        zipPart == ZIP_QUERY_REGEX("web", resubmitted)
        zipAnswer == IF zipPart = None THEN None
                     ELSE recordedAnswer(zipRequestOf(zipPart[1]))
    IN  IF resubmitted = <<>> THEN Resubmitted(TRUE, None)
        ELSE IF zipPart # None /\ zipAnswer = None THEN Resubmitted(FALSE, None)
        ELSE IF zipPart # None /\ zipAnswer[1].ok
             THEN Resubmitted(TRUE, Some(zipAnswer[1].results[1]))
        ELSE geocodeLocationDirect(resubmitted)

SugNext ==
    \/ SuggestStart
    \/ SugZipResponseOk
    \/ SugZipResponseFail
    \/ SugDirectResponseOk
    \/ SugDirectResponseFail
    \/ SugFallbackResponseOk
    \/ SugFallbackResponseFail

SpecSuggest == SugInit /\ [][SugNext]_vars

-----------------------------------------------------------------------------
(* The incremental search of the App component (web and mobile): the       *)
(* suggestions effect, its debounce timer, the pending suggestion requests *)
(* and runSearch. An action is one event handler or promise callback       *)
(* together with the render and the effect run that follow it.             *)

MaxRequestId == 3
MaxPendingCalls == 2
MIN_AUTOCOMPLETE_QUERY_LENGTH == 2

\* what the user can type; the input starts empty
AppQueries == { <<" ","A">>, <<"A","u">>, <<"A","u","s","t","i","n",","," ","T","X">> }

AustinTx == Geo(<<"A","u","s","t","i","n">>, <<"T","e","x","a","s">>, <<"U","S">>, 30, -98)
\* what searchLocationSuggestions can resolve with
SuggestionResults == { <<>>, <<Suggestion(AustinTx, formatUsLocationLabel(AustinTx))>> }
\* what searchLocationSuggestions or fetchOptimisticForecast can reject with
AppFailures == { ProviderError(500) }
\* what fetchOptimisticForecast can resolve with
ForecastObjects == { [locationLabel |-> formatUsLocationLabel(AustinTx)] }

\* `No matches found for "${trimmedQuery}".`
NoMatchesError(trimmed) == Err("NoMatches", 0, trimmed)
\* 'Enter a city, state, or zip to see the optimistic outlook.'
EnterLocationError == Err("EnterLocation", 0, <<>>)

AppInit ==
    /\ appVariant \in {"web", "mobile"}
    /\ query = <<>>
    /\ searchVisible = FALSE
    /\ suggestions = <<>>
    /\ suggestionsLoading = FALSE
    /\ suggestionsError = None
    /\ suggestionRequestIdRef = 0
    /\ timeoutId = None
    /\ inFlight = {}
    /\ issuedId = 0
    /\ outcomes = <<>>
    /\ searches = <<>>
    /\ loading = FALSE
    /\ error = None
    /\ forecast = None
    /\ lastQuery = None
    /\ PickIdle /\ GeoIdle /\ SugIdle /\ HlIdle /\ LevIdle /\ HistIdle

\* Mutant: a callback applies its outcome whatever the counter says.
isCurrentRequestAlways(requestId) == TRUE

\* suggestionRequestIdRef.current === requestId
isCurrentRequest(requestId) == suggestionRequestIdRef = requestId

\* Mutant: the effect's early returns leave suggestionsLoading as it is.
RenderedKeepsLoading(q, vis, items, err, busy, ref) ==
    /\ query' = q
    /\ searchVisible' = vis
    /\ IF q = query /\ vis = searchVisible
       THEN /\ suggestions' = items
            /\ suggestionsError' = err
            /\ suggestionsLoading' = busy
            /\ suggestionRequestIdRef' = ref
            /\ UNCHANGED <<timeoutId, issuedId>>
       ELSE IF ~vis \/ Len(trim(q)) < MIN_AUTOCOMPLETE_QUERY_LENGTH
       THEN /\ suggestions' = <<>>
            /\ suggestionsError' = None
            /\ suggestionsLoading' = busy
            /\ suggestionRequestIdRef' = ref
            /\ timeoutId' = None
            /\ UNCHANGED issuedId
       ELSE /\ suggestions' = items
            /\ suggestionsError' = None
            /\ suggestionsLoading' = TRUE
            /\ suggestionRequestIdRef' = ref + 1
            /\ issuedId' = ref + 1
            /\ timeoutId' = Some([requestId |-> ref + 1, trimmed |-> trim(q)])
    /\ suggestionRequestIdRef' <= MaxRequestId

\* The render after a handler that left the query at q, searchVisible at vis
\* and the suggestion state at (items, err, busy, ref). When a dependency
\* of the suggestions effect changed, its cleanup clears the timer and the
\* effect runs: it clears the suggestion state for a hidden search or a short
\* query, else it takes the next requestId and arms the debounce timer.
Rendered(q, vis, items, err, busy, ref) ==
    /\ query' = q
    /\ searchVisible' = vis
    /\ IF q = query /\ vis = searchVisible
       THEN /\ suggestions' = items
            /\ suggestionsError' = err
            /\ suggestionsLoading' = busy
            /\ suggestionRequestIdRef' = ref
            /\ UNCHANGED <<timeoutId, issuedId>>
       ELSE IF ~vis \/ Len(trim(q)) < MIN_AUTOCOMPLETE_QUERY_LENGTH
       THEN /\ suggestions' = <<>>
            /\ suggestionsError' = None
            /\ suggestionsLoading' = FALSE
            /\ suggestionRequestIdRef' = ref
            /\ timeoutId' = None
            /\ UNCHANGED issuedId
       ELSE /\ suggestions' = items
            /\ suggestionsError' = None
            /\ suggestionsLoading' = TRUE
            /\ suggestionRequestIdRef' = ref + 1
            /\ issuedId' = ref + 1
            /\ timeoutId' = Some([requestId |-> ref + 1, trimmed |-> trim(q)])
    /\ suggestionRequestIdRef' <= MaxRequestId

\* a handler that touches neither the suggestion state nor the counter
RenderedWith(q, vis) ==
    Rendered(q, vis, suggestions, suggestionsError, suggestionsLoading, suggestionRequestIdRef)

\* the search card is on screen
SearchCardShown == searchVisible \/ (appVariant = "mobile" /\ forecast = None)

\* onChange / onChangeText of the search input
TypeQuery ==
    /\ SearchCardShown
    /\ \E q \in AppQueries : q # query /\ RenderedWith(q, searchVisible)
    /\ UNCHANGED <<appVariant, inFlight, outcomes, searches, loading, error, forecast, lastQuery>>
    /\ UNCHANGED <<pickVars, geoVars, sugVars, hlVars, levVars, histVars>>

\* web: the "Clear search" button of a non-empty input
ClearQuery ==
    /\ appVariant = "web" /\ searchVisible /\ query # <<>>
    /\ Rendered(<<>>, searchVisible, <<>>, None, FALSE, suggestionRequestIdRef)
    /\ error' = None
    /\ UNCHANGED <<appVariant, inFlight, outcomes, searches, loading, forecast, lastQuery>>
    /\ UNCHANGED <<pickVars, geoVars, sugVars, hlVars, levVars, histVars>>

\* setSearchVisible(true): "Change location", or the geolocation fallback
ShowSearch ==
    /\ ~searchVisible /\ ~loading
    /\ RenderedWith(query, TRUE)
    /\ UNCHANGED <<appVariant, inFlight, outcomes, searches, loading, error, forecast, lastQuery>>
    /\ UNCHANGED <<pickVars, geoVars, sugVars, hlVars, levVars, histVars>>

\* setSearchVisible(false): "Done searching" (web), "Hide" (mobile)
HideSearch ==
    /\ searchVisible /\ forecast # None
    /\ appVariant = "web" => ~loading
    /\ RenderedWith(query, FALSE)
    /\ UNCHANGED <<appVariant, inFlight, outcomes, searches, loading, error, forecast, lastQuery>>
    /\ UNCHANGED <<pickVars, geoVars, sugVars, hlVars, levVars, histVars>>

\* the searchLocationSuggestions and fetchOptimisticForecast calls that have
\* not settled
PendingCalls ==
    Cardinality(inFlight) + Cardinality({ i \in DOMAIN searches : searches[i].settled = None })

\* the debounce timer fires: searchLocationSuggestions(trimmedQuery) is called
TimerFires ==
    /\ timeoutId # None
    /\ PendingCalls < MaxPendingCalls
    /\ inFlight' = inFlight \cup {timeoutId[1]}
    /\ timeoutId' = None
    /\ UNCHANGED <<appVariant, query, searchVisible, suggestions, suggestionsLoading,
                   suggestionsError, suggestionRequestIdRef, issuedId, outcomes, searches,
                   loading, error, forecast, lastQuery>>
    /\ UNCHANGED <<pickVars, geoVars, sugVars, hlVars, levVars, histVars>>

\* .then(results => ...) followed by .finally(...)
SuggestionsResolve ==
    /\ \E r \in inFlight, results \in SuggestionResults :
          /\ inFlight' = inFlight \ {r}
          /\ outcomes' = <<[superseded |-> r.requestId < issuedId]>>
          /\ IF isCurrentRequest(r.requestId)
             THEN /\ suggestions' = results
                  /\ suggestionsError' = IF results = <<>> THEN Some(NoMatchesError(r.trimmed))
                                         ELSE suggestionsError
                  /\ suggestionsLoading' = FALSE
             ELSE UNCHANGED <<suggestions, suggestionsError, suggestionsLoading>>
    /\ UNCHANGED <<appVariant, query, searchVisible, suggestionRequestIdRef, timeoutId,
                   issuedId, searches, loading, error, forecast, lastQuery>>
    /\ UNCHANGED <<pickVars, geoVars, sugVars, hlVars, levVars, histVars>>

\* .catch(err => ...) followed by .finally(...)
SuggestionsReject ==
    /\ \E r \in inFlight, err \in AppFailures :
          /\ inFlight' = inFlight \ {r}
          /\ outcomes' = <<[superseded |-> r.requestId < issuedId]>>
          /\ IF isCurrentRequest(r.requestId)
             THEN /\ suggestions' = <<>>
                  /\ suggestionsError' = Some(err)
                  /\ suggestionsLoading' = FALSE
             ELSE UNCHANGED <<suggestions, suggestionsError, suggestionsLoading>>
    /\ UNCHANGED <<appVariant, query, searchVisible, suggestionRequestIdRef, timeoutId,
                   issuedId, searches, loading, error, forecast, lastQuery>>
    /\ UNCHANGED <<pickVars, geoVars, sugVars, hlVars, levVars, histVars>>

\* runSearch(searchQuery, units) up to its await, called from a handler that
\* left the query at q and searchVisible at vis. web: the counter is bumped
\* and the suggestion state cleared; mobile: neither.
RunSearchStarts(searchQuery, q, vis, items, err, busy) ==
    /\ PendingCalls < MaxPendingCalls
    /\ searches' = Append(SelectSeq(searches, LAMBDA s : s.settled = None),
                           [query |-> searchQuery, settled |-> None])
    /\ loading' = TRUE
    /\ error' = None
    /\ IF appVariant = "web"
       THEN Rendered(q, vis, <<>>, None, FALSE, suggestionRequestIdRef + 1)
       ELSE Rendered(q, vis, items, err, busy, suggestionRequestIdRef)
    /\ UNCHANGED <<appVariant, inFlight, outcomes, forecast, lastQuery>>
    /\ UNCHANGED <<pickVars, geoVars, sugVars, hlVars, levVars, histVars>>

\* handleSubmit (web) / handleSearchSubmit (mobile)
SubmitSearch ==
    /\ SearchCardShown
    /\ appVariant = "web" => ~loading
    /\ IF trim(query) = <<>>
       THEN /\ error' = Some(EnterLocationError)
            /\ UNCHANGED <<appVariant, query, searchVisible, suggestions, suggestionsLoading,
                           suggestionsError, suggestionRequestIdRef, timeoutId, inFlight,
                           issuedId, outcomes, searches, loading, forecast, lastQuery>>
            /\ UNCHANGED <<pickVars, geoVars, sugVars, hlVars, levVars, histVars>>
       ELSE RunSearchStarts(IF appVariant = "web" THEN trim(query) ELSE query,
                            query, searchVisible,
                            suggestions, suggestionsError, suggestionsLoading)

\* handleSuggestionSelect. web: setQuery(searchValue), runSearch;
\* mobile: setQuery(searchValue), setSearchVisible(false), the suggestion
\* state cleared, runSearch
SelectSuggestion ==
    /\ SearchCardShown /\ ~suggestionsLoading
    /\ appVariant = "web" => Len(trim(query)) >= MIN_AUTOCOMPLETE_QUERY_LENGTH
    /\ appVariant = "mobile" => ~loading
    /\ \E i \in DOMAIN suggestions :
          RunSearchStarts(suggestions[i].searchValue, suggestions[i].searchValue,
                          IF appVariant = "web" THEN searchVisible ELSE FALSE,
                          <<>>, None, FALSE)

\* The pending runSearch calls are kept in the order they started. The call
\* that started last stays at the end once it has settled, with what it
\* showed, for as long as calls that started before it are pending.
SettledAt(i, shown) ==
    LET others == [k \in 1..(Len(searches) - 1) |->
                      IF k < i THEN searches[k] ELSE searches[k + 1]] \o <<>>
    IN  IF \A k \in DOMAIN others : others[k].settled # None THEN <<>>
        ELSE IF i = Len(searches) THEN [searches EXCEPT ![i].settled = Some(shown)]
        ELSE others

\* runSearch after fetchOptimisticForecast resolved
SearchSucceeds ==
    /\ \E i \in DOMAIN searches, data \in ForecastObjects :
          /\ searches[i].settled = None
          /\ searches' = SettledAt(i, [forecast |-> Some(data), error |-> None])
          /\ forecast' = Some(data)
          /\ lastQuery' = Some(searches[i].query)
          /\ RenderedWith(IF appVariant = "web" THEN query ELSE searches[i].query, FALSE)
    /\ loading' = FALSE
    /\ UNCHANGED <<appVariant, inFlight, outcomes, error>>
    /\ UNCHANGED <<pickVars, geoVars, sugVars, hlVars, levVars, histVars>>

\* runSearch after fetchOptimisticForecast rejected
SearchFails ==
    /\ \E i \in DOMAIN searches, err \in AppFailures :
          /\ searches[i].settled = None
          /\ searches' = SettledAt(i, [forecast |-> None, error |-> Some(err)])
          /\ error' = Some(err)
    /\ forecast' = None
    /\ RenderedWith(query, IF appVariant = "web" THEN searchVisible ELSE TRUE)
    /\ loading' = FALSE
    /\ UNCHANGED <<appVariant, inFlight, outcomes, lastQuery>>
    /\ UNCHANGED <<pickVars, geoVars, sugVars, hlVars, levVars, histVars>>

AppNext ==
    \/ TypeQuery
    \/ ClearQuery
    \/ ShowSearch
    \/ HideSearch
    \/ TimerFires
    \/ SuggestionsResolve
    \/ SuggestionsReject
    \/ SubmitSearch
    \/ SelectSuggestion
    \/ SearchSucceeds
    \/ SearchFails

SpecUI == AppInit /\ [][AppNext]_vars

\* The scheduling of the runtime: an armed timer fires, and the provider
\* answers every call, so that each pending promise settles.
SpecUILive ==
    /\ AppInit /\ [][AppNext]_vars
    /\ WF_vars(TimerFires)
    /\ WF_vars(SuggestionsResolve \/ SuggestionsReject)
    /\ WF_vars(SearchSucceeds \/ SearchFails)

-----------------------------------------------------------------------------
(* craftHighlights on bounded inputs.                                      *)
(* A series entry is [dt, pop, rain, snow, weather, clouds, humidity,      *)
(* temp, feels_like, visibility, speed, gust]: pop in hundredths and       *)
(* nullable (None for a missing or NaN value), rain and snow the nullable  *)
(* 3h volumes in tenths of a millimetre, weather the list of condition     *)
(* names, clouds the nullable cover in percent, temp and feels_like in     *)
(* tenths of a degree, visibility in metres, speed and gust in tenths of   *)
(* the provider's unit. A ratio is the exact fraction [num, den].          *)

MaxHorizon == 3

HlEntry(pop, rain, snow, weather, clouds, humidity, feels_like, visibility, speed, gust) ==
    [dt |-> 1700000000, pop |-> pop, rain |-> rain, snow |-> snow, weather |-> weather,
     clouds |-> clouds, humidity |-> humidity, temp |-> 200, feels_like |-> feels_like,
     visibility |-> visibility, speed |-> speed, gust |-> gust]

HlEntries == {
    HlEntry(Some(0), None, None, <<"Clear">>, Some(0), 40, 210, 10000, 30, None),
    HlEntry(None, None, None, <<"Clouds">>, Some(80), 61, 170, 7999, 70, Some(120)),
    HlEntry(Some(40), None, None, <<"Clouds">>, Some(45), 60, 216, 8000, 156, None),
    HlEntry(Some(20), Some(12), None, <<"Clouds">>, None, 55, 185, 9000, 155, None),
    HlEntry(Some(170), None, None, <<"Mist", "Thunderstorm">>, Some(100), 90, 200, 4000, 69,
            Some(0)),
    HlEntry(Some(39), None, Some(0), <<"Mist">>, Some(33), 70, 215, 12000, 10, None),
    HlEntry(Some(0 - 50), Some(0), None, <<>>, Some(10), 30, 184, 16093, 20, None),
    HlEntry(Some(10), None, None, <<"Clouds">>, Some(120), 104, 200, 9000, 40, None)
}

Ratio(num, den) == [num |-> num, den |-> den]

RECURSIVE sumOf(_)
sumOf(values) == IF values = <<>> THEN 0 ELSE Head(values) + sumOf(Tail(values))

\* average(values): 0 for no values, else the sum over the length
average(values) == IF values = <<>> THEN Ratio(0, 1) ELSE Ratio(sumOf(values), Len(values))

\* Math.round of a ratio: the nearest integer, halves upwards
roundRatio(r) == (2 * r.num + r.den) \div (2 * r.den)

\* entry.pop ?? 0, 0 for NaN, then Math.min(Math.max(value, 0), 1) (hundredths)
normalizedPopValues(horizon) ==
    [i \in DOMAIN horizon |->
        IF horizon[i].pop = None THEN 0
        ELSE Min2(Max2(horizon[i].pop[1], 0), 100)] \o <<>>

\* Mutant: a high precipitation probability alone does not make a block wet.
isWetBlockWithoutPop(entry) ==
    \/ orZero(entry.rain) + orZero(entry.snow) > 0
    \/ \E k \in DOMAIN entry.weather :
          entry.weather[k] \in {"Rain", "Drizzle", "Thunderstorm", "Snow"}

\* the filter of wetBlocks: precipitationVolume > 0 || wetWeather || highPop
isWetBlock(entry) ==
    \/ orZero(entry.rain) + orZero(entry.snow) > 0
    \/ \E k \in DOMAIN entry.weather :
          entry.weather[k] \in {"Rain", "Drizzle", "Thunderstorm", "Snow"}
    \/ orZero(entry.pop) >= 40

wetBlocks(horizon) == Len(SelectSeq(horizon, isWetBlock))

\* dryShareFromPop * Math.max(wetPenalty, 0), clamped to [0, 1]:
\* dryShareFromPop = 1 - avgPopValue and wetPenalty = 1 - wetBlocks / length
drynessRatio(horizon) ==
    LET avgPopValue == average(normalizedPopValues(horizon))
        dryShareFromPop == Ratio(100 * avgPopValue.den - avgPopValue.num,
                                 100 * avgPopValue.den)
        wetPenalty == Ratio(Len(horizon) - wetBlocks(horizon), Len(horizon))
        product == Ratio(dryShareFromPop.num * Max2(wetPenalty.num, 0),
                         dryShareFromPop.den * wetPenalty.den)
    IN  Ratio(Max2(0, Min2(product.den, product.num)), product.den)

\* Math.round(ratio * 100)
percentOfRatio(r) == roundRatio(Ratio(100 * r.num, r.den))

Highlight(id, heroStatValue, metricValue) ==
    [id |-> id, heroStatValue |-> heroStatValue, metricValue |-> metricValue]

\* the first highlight: 'dryness' from 55 percent on, else 'refresh'; the
\* hero stat is avgDryness and the metric rainChancePercent in both
drynessHighlight(horizon) ==
    LET ratio == drynessRatio(horizon)
        avgDryness == percentOfRatio(ratio)
        rainChancePercent == percentOfRatio(Ratio(ratio.den - ratio.num, ratio.den))
    IN  Highlight(IF avgDryness >= 55 THEN "dryness" ELSE "refresh",
                  avgDryness, rainChancePercent)

\* hero cloudOpenings, metric avgCloudCover
cloudsHighlight(horizon) ==
    LET covers == [i \in DOMAIN horizon |-> orZero(horizon[i].clouds)] \o <<>>
        openings == [i \in DOMAIN horizon |-> 100 - orZero(horizon[i].clouds)] \o <<>>
    IN  Highlight("clouds", roundRatio(average(openings)), roundRatio(average(covers)))

\* feelsGap in tenths; feelsOffset = Math.round(feelsGap)
comfortHighlight(first) ==
    LET feelsGap == first.feels_like - first.temp
        feelsOffset == roundRatio(Ratio(feelsGap, 10))
        magnitude == IF feelsOffset < 0 THEN 0 - feelsOffset ELSE feelsOffset
    IN  Highlight(IF feelsGap <= 15 /\ feelsGap >= 0 - 15 THEN "feels-like"
                  ELSE IF feelsGap < 0 THEN "cooler" ELSE "warmer",
                  magnitude, feelsOffset)

humidityHighlight(first) ==
    Highlight(IF first.humidity <= 60 THEN "humidity" ELSE "hydration",
              first.humidity, first.humidity)

\* visibilityValue.toFixed(1) in tenths of a kilometre or of a mile
visibilityHighlight(first, units) ==
    LET visibilityValue == IF units = "metric"
                           THEN roundRatio(Ratio(first.visibility, 100))
                           ELSE roundRatio(Ratio(first.visibility * 1000, 160934))
    IN  Highlight(IF first.visibility >= 8000 THEN "visibility" ELSE "cozy-views",
                  visibilityValue, visibilityValue)

\* windValue in tenths: metersPerSecondToKph(speed) for metric; breezy is
\* windValue <= 25 (metric) or <= 15.5 (imperial); the metric value is the
\* gust when there is a non-zero one
windHighlight(first, units) ==
    LET isMetric == units = "metric"
        windValue == IF isMetric THEN Ratio(first.speed * 36, 10) ELSE Ratio(first.speed, 1)
        breezy == IF isMetric THEN windValue.num <= 250 * windValue.den
                  ELSE windValue.num <= 155 * windValue.den
        gustValue == IF first.gust = None \/ first.gust = Some(0) THEN None
                     ELSE IF isMetric THEN Some(roundRatio(Ratio(first.gust[1] * 36, 10)))
                     ELSE first.gust
    IN  Highlight(IF breezy THEN "breeze" ELSE "wind-energy",
                  roundRatio(windValue),
                  IF gustValue = None THEN roundRatio(windValue) ELSE gustValue[1])

\* Mutant: the comfort highlight is pushed only when the two temperatures differ.
craftHighlightsComfortOnGap(horizon, units) ==
    IF horizon = <<>> THEN <<>>
    ELSE <<drynessHighlight(horizon), cloudsHighlight(horizon)>>
         \o (IF comfortHighlight(horizon[1]).id = "feels-like" THEN <<>>
             ELSE <<comfortHighlight(horizon[1])>>)
         \o <<humidityHighlight(horizon[1]), visibilityHighlight(horizon[1], units),
              windHighlight(horizon[1], units)>>

craftHighlights(horizon, units) ==
    IF horizon = <<>> THEN <<>>
    ELSE <<drynessHighlight(horizon),
           cloudsHighlight(horizon),
           comfortHighlight(horizon[1]),
           humidityHighlight(horizon[1]),
           visibilityHighlight(horizon[1], units),
           windHighlight(horizon[1], units)>>

HlInit ==
    /\ hlHorizon \in SeqsUpTo(HlEntries, MaxHorizon)
    /\ hlUnits \in {"metric", "imperial"}
    /\ hlCalled = FALSE
    /\ hlResult = <<>>
    /\ PickIdle /\ GeoIdle /\ SugIdle /\ AppIdle /\ LevIdle /\ HistIdle

CraftHighlightsCall ==
    /\ ~hlCalled
    /\ hlCalled' = TRUE
    /\ hlResult' = craftHighlights(hlHorizon, hlUnits)
    /\ UNCHANGED <<hlHorizon, hlUnits, pickVars, geoVars, sugVars, appVars, levVars, histVars>>

HlNext == CraftHighlightsCall

SpecHighlights == HlInit /\ [][HlNext]_vars

-----------------------------------------------------------------------------
(* levenshteinDistance on bounded inputs.                                  *)

MaxLevLength == 3

\* the strings over two characters of at most MaxLevLength characters
LevStrings == SeqsUpTo({"a", "b"}, MaxLevLength)

LevInit ==
    /\ levA \in LevStrings
    /\ levB \in LevStrings
    /\ levCalled = FALSE
    /\ levResult = 0
    /\ PickIdle /\ GeoIdle /\ SugIdle /\ AppIdle /\ HlIdle /\ HistIdle

LevenshteinDistanceCall ==
    /\ ~levCalled
    /\ levCalled' = TRUE
    /\ levResult' = levenshteinDistance(levA, levB)
    /\ UNCHANGED <<levA, levB, pickVars, geoVars, sugVars, appVars, hlVars, histVars>>

LevNext == LevenshteinDistanceCall

SpecLev == LevInit /\ [][LevNext]_vars

-----------------------------------------------------------------------------
(* The search history of the App (web and mobile): recordHistory, called   *)
(* by runSearch when its fetch has settled, and the history handlers.      *)

HISTORY_LIMIT == 8
MaxSearches == 2

\* what the user can search for besides the entries of the history
HistoryQueries == { <<"a">>, <<"I">> }

HistoryEntry(id, searchQuery, success, label, message) ==
    [id |-> id, query |-> searchQuery, success |-> success,
     locationLabel |-> label, errorMessage |-> message]

\* a history as an earlier session left it in the storage: HISTORY_LIMIT
\* searches, the third oldest of them failed
StoredHistory ==
    <<HistoryEntry(8, <<"A">>, TRUE, Some(<<"A",","," ","U","S">>), None),
      HistoryEntry(7, <<"B">>, TRUE, Some(<<"B",","," ","U","S">>), None),
      HistoryEntry(6, <<"C">>, TRUE, Some(<<"C",","," ","U","S">>), None),
      HistoryEntry(5, <<"D">>, TRUE, Some(<<"D",","," ","U","S">>), None),
      HistoryEntry(4, <<"E">>, TRUE, Some(<<"E",","," ","U","S">>), None),
      HistoryEntry(3, <<"F">>, FALSE, None, Some(ProviderError(500))),
      HistoryEntry(2, <<"G">>, TRUE, Some(<<"G",","," ","U","S">>), None),
      HistoryEntry(1, <<"H">>, TRUE, Some(<<"H",","," ","U","S">>), None)>>

\* the outcomes of fetchOptimisticForecast(q): data.locationLabel or the error
HistoryOutcomes(q) ==
    { [query |-> q, success |-> TRUE, locationLabel |-> Some(toUpperCase(q) \o <<","," ","U","S">>),
       errorMessage |-> None],
      [query |-> q, success |-> FALSE, locationLabel |-> None,
       errorMessage |-> Some(NotFoundError(q))] }

\* crypto.randomUUID() / createHistoryId(): an id no entry has
createHistoryId(prev) ==
    CHOOSE n \in 1..(Len(prev) + 1) :
        /\ \A i \in DOMAIN prev : prev[i].id # n
        /\ \A m \in 1..(n - 1) : \E i \in DOMAIN prev : prev[i].id = m

\* Mutant: the earlier entry of the query is looked up case-sensitively.
recordHistoryCaseSensitive(prev, entry) ==
    LET filtered == SelectSeq(prev, LAMBDA item : item.query # entry.query)
        nextEntries == <<[entry EXCEPT !.id = createHistoryId(prev)]>> \o filtered
    IN  sliceTo(nextEntries, HISTORY_LIMIT)

\* setHistory(prev => [{...entry, id}, ...filtered].slice(0, HISTORY_LIMIT))
recordHistory(prev, entry) ==
    LET filtered == SelectSeq(prev, LAMBDA item :
                                  toLowerCase(item.query) # toLowerCase(entry.query))
        nextEntries == <<[entry EXCEPT !.id = createHistoryId(prev)]>> \o filtered
    IN  sliceTo(nextEntries, HISTORY_LIMIT)

\* web: useState(() => loadHistoryEntries()); mobile: [] until the stored
\* entries are loaded
HistoryInit ==
    /\ history \in {<<>>, StoredHistory}
    /\ historySearches = {}
    /\ historyStarted = 0
    /\ historyLoading = FALSE
    /\ historyLast = None
    /\ PickIdle /\ GeoIdle /\ SugIdle /\ AppIdle /\ HlIdle /\ LevIdle

\* runSearch(searchQuery, units) up to its await
HistorySearchStarts(searchQuery) ==
    /\ historyStarted < MaxSearches
    /\ Cardinality(historySearches) < MaxPendingCalls
    /\ searchQuery \notin historySearches
    /\ historySearches' = historySearches \cup {searchQuery}
    /\ historyStarted' = historyStarted + 1
    /\ historyLoading' = TRUE
    /\ UNCHANGED <<history, historyLast>>
    /\ UNCHANGED <<pickVars, geoVars, sugVars, appVars, hlVars, levVars>>

\* handleSuggestionSelect (the suggestion buttons stay enabled while a
\* search is loading): runSearch of a query the user gives
HistorySubmit == \E q \in HistoryQueries : HistorySearchStarts(q)

\* handleHistorySelect(entry): runSearch(entry.query); the oldest entry is
\* the one picked, its button is disabled while loading
handleHistorySelect ==
    /\ ~historyLoading
    /\ history # <<>>
    /\ HistorySearchStarts(history[Len(history)].query)

\* runSearch once its fetch has settled: recordHistory({query, success, ...}),
\* and setLoading(false) in the finally block
HistorySearchSettles ==
    /\ \E q \in historySearches : \E outcome \in HistoryOutcomes(q) :
          /\ historySearches' = historySearches \ {q}
          /\ history' = recordHistory(history,
                            HistoryEntry(0, q, outcome.success, outcome.locationLabel,
                                         outcome.errorMessage))
          /\ historyLast' = Some(outcome)
    /\ historyLoading' = FALSE
    /\ UNCHANGED historyStarted
    /\ UNCHANGED <<pickVars, geoVars, sugVars, appVars, hlVars, levVars>>

\* handleHistoryDelete(id), of the newest or the oldest entry
handleHistoryDelete ==
    /\ \E i \in {1, Len(history)} \cap DOMAIN history :
          history' = SelectSeq(history, LAMBDA entry : entry.id # history[i].id)
    /\ UNCHANGED <<historySearches, historyStarted, historyLoading, historyLast>>
    /\ UNCHANGED <<pickVars, geoVars, sugVars, appVars, hlVars, levVars>>

\* handleHistoryClear; the button is disabled for an empty history
handleHistoryClear ==
    /\ history # <<>>
    /\ history' = <<>>
    /\ UNCHANGED <<historySearches, historyStarted, historyLoading, historyLast>>
    /\ UNCHANGED <<pickVars, geoVars, sugVars, appVars, hlVars, levVars>>

HistoryNext ==
    \/ HistorySubmit
    \/ handleHistorySelect
    \/ HistorySearchSettles
    \/ handleHistoryDelete
    \/ handleHistoryClear

SpecHistory == HistoryInit /\ [][HistoryNext]_vars

-----------------------------------------------------------------------------
(* Claims about pickBestMatch (checked under SpecPick).                    *)

PickScore(i) == pickScored[i].score
PickDistance(i) == pickScored[i].distance
PickMatchesCountry(i) == matchesCountryFromOption(pickQuery, pickOptions[i].country)
PickStateAdj(i) == stateAdjustmentWeb(pickQuery, pickOptions[i])

\* C9: pickBestMatch returns null exactly for an empty candidate list; otherwise
\* it returns a candidate of minimal composite score, and among the candidates
\* with that score the one that comes first in the provider's order.
C9_PickBestMatchMinimalFirst ==
    pickCalled =>
        /\ (pickResult = None) <=> (Len(pickOptions) = 0)
        /\ Len(pickOptions) > 0 =>
             \E i \in DOMAIN pickOptions :
                /\ pickResult = Some(pickOptions[i])
                /\ \A j \in DOMAIN pickOptions : PickScore(j) >= PickScore(i)
                /\ \A j \in 1..(i - 1) : PickScore(j) > PickScore(i)

\* Two different candidates tie on the minimal score and the first was returned.
C9_Witness ==
    /\ pickCalled
    /\ Len(pickOptions) = 2
    /\ pickOptions[1] # pickOptions[2]
    /\ PickScore(1) = PickScore(2)
    /\ pickResult = Some(pickOptions[1])

\* C10: when the query references the country of candidate A and not that of
\* candidate B, A scores distance - 40 and B distance + 20 (plus their state
\* adjustments), so of the two, with equal state adjustments, A is returned
\* whenever distance(A) - distance(B) < 60; when the query references the
\* country of no candidate, no candidate gets a country adjustment.
C10_CountryHintAdjustment ==
    pickCalled =>
        /\ \A a, b \in DOMAIN pickOptions :
              (PickMatchesCountry(a) /\ ~PickMatchesCountry(b)) =>
                 /\ PickScore(a) = PickDistance(a) - 40 + PickStateAdj(a)
                 /\ PickScore(b) = PickDistance(b) + 20 + PickStateAdj(b)
                 /\ (/\ Len(pickOptions) = 2
                     /\ PickStateAdj(a) = PickStateAdj(b)
                     /\ PickDistance(a) - PickDistance(b) < 60)
                    => pickResult = Some(pickOptions[a])
        /\ (\A i \in DOMAIN pickOptions : ~PickMatchesCountry(i)) =>
              \A i \in DOMAIN pickOptions :
                 PickScore(i) = PickDistance(i) + PickStateAdj(i)

\* The country bonus outweighs both the raw distance and the provider's order:
\* the second candidate is farther from the query but is the one returned.
C10_Witness ==
    /\ pickCalled
    /\ Len(pickOptions) = 2
    /\ PickMatchesCountry(2) /\ ~PickMatchesCountry(1)
    /\ PickStateAdj(1) = PickStateAdj(2)
    /\ PickDistance(2) > PickDistance(1)
    /\ pickResult = Some(pickOptions[2])

PickIsUs(i) == toUpperCase(pickOptions[i].country) = <<"U","S">>
PickMatchesState(i) == matchesStateFromOption(pickQuery, pickOptions[i])
PickCountryAdj(i) == countryAdjustment(pickQuery, pickOptions, pickOptions[i])

-----------------------------------------------------------------------------
(* Properties of fetchOptimisticForecast and geocodeLocation (Spec).       *)

\* the i-th request has been answered; requests are awaited one at a time,
\* so responses[i] answers requests[i]
Answered(i) == i \in DOMAIN responses
FailedAt(i) == Answered(i) /\ ~responses[i].ok
DirectIdx == { i \in DOMAIN requests : requests[i].endpoint = "direct" }
FirstDirect == CHOOSE i \in DirectIdx : \A j \in DirectIdx : i <= j
ZipFirst == requests # <<>> /\ requests[1].endpoint = "zip"
Finished == pc \in {"done", "failed"}
FailedWith(kind) == pc = "failed" /\ forecastError # None /\ forecastError[1].kind = kind

\* C3: whenever location resolution fails (blank query, missing key, a failed
\* free-text lookup, no match) or the short-range fetch fails, the call
\* rejects with that very error and returns no forecast; a forecast object
\* exists only for a call that resolved a location, received the series and
\* finished without an error.
C3_ResolutionAndForecastFailuresPropagate ==
    /\ \A i \in DOMAIN requests :
          (FailedAt(i) /\ requests[i].endpoint \in {"direct", "forecast"})
              => /\ pc = "failed"
                 /\ forecastError = Some(ProviderError(responses[i].status))
                 /\ forecastResult = None
    /\ (pc = "failed" /\ location = None)
          => /\ forecastError # None
             /\ forecastError[1].kind \in {"EmptyQuery", "Configuration", "NotFound", "Provider"}
             /\ forecastResult = None
             /\ \A i \in DOMAIN requests : requests[i].endpoint \in {"zip", "direct"}
    /\ forecastResult # None
          => pc = "done" /\ forecastError = None /\ location # None /\ series # None

C3_Witness ==
    /\ location # None
    /\ \E i \in DOMAIN requests : FailedAt(i) /\ requests[i].endpoint = "forecast"
    /\ FailedWith("Provider")

\* C4: on the web, once the location is resolved and the short-range series
\* has arrived, no outcome of the primary or the legacy daily request makes
\* the call fail (the only failure left is the one of an empty series); with
\* a non-empty series the call succeeds, every day of the outlook comes from
\* a source that answered, and an outlook without days has isComplete = false
\* and the 'unavailable' message.
C4_DailyFailuresNeverPropagate ==
    (variant = "web" /\ series # None)
        => /\ pc \in {"awaitPrimary", "awaitLegacy", "done", "failed"}
           /\ pc = "failed" => series[1].list = <<>> /\ forecastError = Some(TypeError)
           /\ (Finished /\ series[1].list # <<>>)
                 => /\ pc = "done" /\ forecastError = None /\ forecastResult # None
                    /\ forecastResult[1].extendedOutlook # None
                    /\ LET outlook == forecastResult[1].extendedOutlook[1]
                           entries ==
                               { primaryDaily.daily[i] : i \in DOMAIN primaryDaily.daily }
                               \cup { legacyDaily.list[i] : i \in DOMAIN legacyDaily.list }
                       IN  /\ \A k \in DOMAIN outlook.days :
                                 \E e \in entries :
                                    /\ e.max = Some(outlook.days[k].high)
                                    /\ e.min = Some(outlook.days[k].low)
                           /\ (\A e \in entries : e.max = None \/ e.min = None)
                                 => outlook.days = <<>>
                           /\ outlook.days = <<>>
                                 => /\ outlook.isComplete = FALSE
                                    /\ outlook.message
                                         = Some(EXTENDED_OUTLOOK_UNAVAILABLE_MESSAGE)

C4_Witness ==
    /\ variant = "web" /\ pc = "done" /\ forecastResult # None
    /\ primaryDaily.status = "failed" /\ legacyDaily.status = "failed"
    /\ forecastResult[1].extendedOutlook = Some(unavailableOutlook)

\* C5: a short-range response with an empty series makes the call fail with
\* the malformed-data error and without a forecast.
C5_EmptySeriesIsMalformedData ==
    (series # None /\ series[1].list = <<>> /\ Finished)
        => pc = "failed" /\ forecastError = Some(MalformedDataError) /\ forecastResult = None

\* C6: a query that is empty after trimming fails with the empty-query error
\* before any request is issued, whether or not the API key is configured.
C6_BlankQueryFailsBeforeAnyRequest ==
    (trim(geoQuery) = <<>> /\ pc # "start")
        => /\ pc = "failed"
           /\ forecastError = Some(EmptyQueryError)
           /\ requests = <<>> /\ responses = <<>>

C6_Witness ==
    geoQuery # <<>> /\ trim(geoQuery) = <<>> /\ ~hasApiKey /\ FailedWith("EmptyQuery")

\* C7: a trimmed query matching the postal pattern starts with the postal
\* request; when that request succeeds its result is the resolved location
\* and no free-text request is ever issued; when it fails the call does not
\* fail but issues the free-text request for the trimmed query.
C7_PostalLookupFirst ==
    /\ (ZIP_QUERY_REGEX(variant, trim(geoQuery)) # None /\ hasApiKey /\ pc # "start")
          => ZipFirst
    /\ (ZipFirst /\ Answered(1) /\ responses[1].ok)
          => location # None /\ location[1] \in ZipResults /\ DirectIdx = {}
    /\ (ZipFirst /\ FailedAt(1))
          => /\ Len(requests) >= 2
             /\ requests[2] = TextRequest("direct", trim(geoQuery))
             /\ (Len(responses) = 1 => pc = "awaitDirect" /\ forecastError = None)

C7_Witness ==
    /\ ZipFirst /\ FailedAt(1)
    /\ location # None /\ location[1] \in GeoCandidates

\* C8: the free-text lookup is repeated, with the text before the first
\* comma, exactly when the first lookup left no candidate and the trimmed
\* query contains a comma; the call fails with the not-found error exactly
\* when the last of these lookups left no candidate, and the error quotes
\* the query as it was passed in.
C8_FallbackAndNotFound ==
    LET trimmed == trim(geoQuery)
        hasComma == includes(trimmed, <<",">>)
        firstAnswered == DirectIdx # {} /\ Answered(FirstDirect) /\ responses[FirstDirect].ok
        firstEmpty == firstAnswered /\ responses[FirstDirect].kept = 0
        retried == Cardinality(DirectIdx) = 2
        retryEmpty == /\ retried /\ Answered(FirstDirect + 1)
                      /\ responses[FirstDirect + 1].ok
                      /\ responses[FirstDirect + 1].kept = 0
    IN  /\ Cardinality(DirectIdx) <= 2
        /\ retried <=> (firstEmpty /\ hasComma)
        /\ retried => requests[FirstDirect + 1]
                        = TextRequest("direct", trim(beforeFirstComma(trimmed)))
        /\ FailedWith("NotFound") <=> (firstEmpty /\ (hasComma => retryEmpty))
        /\ FailedWith("NotFound") => forecastError = Some(NotFoundError(geoQuery))

C8_Witness ==
    /\ Cardinality(DirectIdx) = 2
    /\ FailedWith("NotFound")
    /\ geoQuery # trim(geoQuery)
    /\ forecastError[1].text = geoQuery

(* The extended outlook of a returned web forecast and the entries behind it. *)

WebReturned == variant = "web" /\ pc = "done" /\ forecastResult # None
OutlookOfResult == forecastResult[1].extendedOutlook[1]
LegacyRequested == \E k \in DOMAIN requests : requests[k].endpoint = "daily"
IsValidEntry(e) == e.max # None /\ e.min # None
ValidCount(entries) == Cardinality({ i \in DOMAIN entries : IsValidEntry(entries[i]) })
PrimaryEntries == { primaryDaily.daily[i] : i \in DOMAIN primaryDaily.daily }
LegacyEntries == { legacyDaily.list[i] : i \in DOMAIN legacyDaily.list }
\* the daily response fetchDailyForecast handed back
DailyReturned ==
    IF LegacyRequested THEN dailyForecastOf(primaryDaily, legacyDaily)
    ELSE Some([daily |-> primaryDaily.daily, hourly |-> primaryDaily.hourly,
               timezone_offset |-> primaryDaily.timezone_offset])
OffsetOfResult == IF DailyReturned = None THEN 0 ELSE orZero(DailyReturned[1].timezone_offset)
\* the UTC calendar date of the entry behind an outlook day
DateOfDay(day) == (day.date - OffsetOfResult) \div SECONDS_PER_DAY

\* C14: the legacy daily source is requested if and only if the primary
\* source did not return at least 10 valid daily entries (valid: max and min
\* temperature both present).
C14_LegacyIffPrimaryShortOfValid ==
    (variant = "web" /\ primaryDaily.status # "not-called")
        => (LegacyRequested
               <=> ~(primaryDaily.status = "ok" /\ ValidCount(primaryDaily.daily) >= 10))

\* C15: whatever the two sources returned, the days of the outlook are in
\* ascending timestamp order, at most one per UTC calendar date and at most
\* 10; for a date present in both sources the primary's entry is kept.
C15_OutlookAscendingOnePerDate ==
    WebReturned =>
        LET days == OutlookOfResult.days
        IN  /\ Len(days) <= 10
            /\ \A i, j \in DOMAIN days : i < j => days[i].date < days[j].date
            /\ \A i, j \in DOMAIN days : i < j => DateOfDay(days[i]) # DateOfDay(days[j])
            /\ \A k \in DOMAIN days :
                   (\E p \in PrimaryEntries : utcDateKey(p) = DateOfDay(days[k]))
                       => \E p \in PrimaryEntries : p.dt + OffsetOfResult = days[k].date

\* C16: an entry without a valid max or min temperature never appears in the
\* outlook and never counts toward the 10-day cap: when the sources that
\* answered supply valid entries for at least 10 distinct dates, the outlook
\* has exactly 10 days.
C16_InvalidEntriesNeverCount ==
    WebReturned =>
        LET days == OutlookOfResult.days
            valid == { e \in PrimaryEntries \cup LegacyEntries : IsValidEntry(e) }
        IN  /\ \A k \in DOMAIN days :
                   \E e \in valid : e.dt + OffsetOfResult = days[k].date
            /\ Cardinality({ utcDateKey(e) : e \in valid }) >= 10 => Len(days) = 10

\* round(100 * min(max(pop, 0), 1)) on a probability in thousandths
PercentOf(pop) ==
    IF pop = None THEN None
    ELSE IF pop[1] <= 0 THEN Some(0)
    ELSE IF pop[1] >= 1000 THEN Some(100)
    ELSE Some((pop[1] + 5) \div 10)

\* C17: for every daily and every hourly entry of a returned forecast the
\* precipitation chance is null exactly when the raw probability is absent,
\* and otherwise round(100 * min(max(pop, 0), 1)), an integer in 0..100.
C17_PrecipitationChance ==
    WebReturned =>
        Let(LAMBDA offset :
            /\ \A k \in DOMAIN OutlookOfResult.days :
                   LET day == OutlookOfResult.days[k]
                       raw == { e \in PrimaryEntries \cup LegacyEntries :
                                   e.dt + offset = day.date }
                   IN  /\ raw # {}
                       /\ \A e \in raw :
                              /\ day.precipitationChancePercent = PercentOf(e.pop)
                              /\ day.precipitationChancePercent = None <=> e.pop = None
                       /\ day.precipitationChancePercent # None
                              => day.precipitationChancePercent[1] \in 0..100
            /\ forecastResult[1].hourlyOutlook # None =>
                   \A k \in DOMAIN forecastResult[1].hourlyOutlook[1] :
                       LET hour == forecastResult[1].hourlyOutlook[1][k]
                           raw == { primaryDaily.hourly[i] : i \in
                                       { i \in DOMAIN primaryDaily.hourly :
                                            primaryDaily.hourly[i].dt + offset = hour.time } }
                       IN  /\ raw # {}
                           /\ \A e \in raw :
                                  /\ hour.precipitationChancePercent = PercentOf(e.pop)
                                  /\ hour.precipitationChancePercent = None <=> e.pop = None
                           /\ hour.precipitationChancePercent # None
                                  => hour.precipitationChancePercent[1] \in 0..100,
            OffsetOfResult)

\* a forecast whose days show a missing chance, 0 from a negative
\* probability and 100 from a probability above 1, and whose hours show a
\* missing chance
C17_Witness ==
    /\ WebReturned
    /\ \E k \in DOMAIN OutlookOfResult.days :
           OutlookOfResult.days[k].precipitationChancePercent = None
    /\ \E e \in PrimaryEntries \cup LegacyEntries :
           /\ e.pop # None /\ e.pop[1] < 0
           /\ \E k \in DOMAIN OutlookOfResult.days :
                  /\ OutlookOfResult.days[k].date = e.dt + OffsetOfResult
                  /\ OutlookOfResult.days[k].precipitationChancePercent = Some(0)
    /\ \E e \in PrimaryEntries \cup LegacyEntries :
           /\ e.pop # None /\ e.pop[1] > 1000
           /\ \E k \in DOMAIN OutlookOfResult.days :
                  /\ OutlookOfResult.days[k].date = e.dt + OffsetOfResult
                  /\ OutlookOfResult.days[k].precipitationChancePercent = Some(100)
    /\ forecastResult[1].hourlyOutlook # None
    /\ \E k \in DOMAIN forecastResult[1].hourlyOutlook[1] :
           forecastResult[1].hourlyOutlook[1][k].precipitationChancePercent = None

\* C18: in every returned forecast the extended outlook has isComplete true
\* exactly when it has 10 days; the message is absent when complete, the
\* 'limited' message for 1 to 9 days and the 'unavailable' message for 0 days.
C18_CompletenessAndMessage ==
    WebReturned =>
        /\ forecastResult[1].extendedOutlook # None
        /\ LET outlook == OutlookOfResult
               n == Len(outlook.days)
           IN  /\ outlook.isComplete <=> n = 10
               /\ outlook.isComplete => outlook.message = None
               /\ n \in 1..9 => outlook.message = Some(EXTENDED_OUTLOOK_LIMITED_MESSAGE)
               /\ n = 0 => outlook.message = Some(EXTENDED_OUTLOOK_UNAVAILABLE_MESSAGE)

\* a forecast with 9 days, not complete, carrying the 'limited' message
C18_Witness ==
    /\ WebReturned
    /\ Len(OutlookOfResult.days) = 9
    /\ ~OutlookOfResult.isComplete
    /\ OutlookOfResult.message = Some(EXTENDED_OUTLOOK_LIMITED_MESSAGE)

\* C30: in the web variant every location geocodeLocation returns has
\* country US, for every query (a postal query with a country suffix
\* included) and every provider response.
C30_WebLocationsAreUs ==
    (variant = "web" /\ location # None) => toUpperCase(location[1].country) = <<"U","S">>

\* the place of an endpoint in the order of a call
EndpointRank(endpoint) ==
    CASE endpoint = "zip" -> 1
      [] endpoint = "direct" -> 2
      [] endpoint = "forecast" -> 3
      [] endpoint = "onecall" -> 4
      [] endpoint = "daily" -> 5

RequestsTo(endpoint) ==
    Cardinality({ i \in DOMAIN requests : requests[i].endpoint = endpoint })

\* the steps whose failure ends the call: the free-text lookups and the
\* short-range forecast
LoadBearing(endpoint) == endpoint \in {"direct", "forecast"}

\* C24: within one call the provider requests are issued one after another,
\* each only after the previous one completed, in the order postal lookup,
\* free-text lookup, fallback lookup, short-range forecast, primary daily,
\* legacy daily; none is issued after a load-bearing step failed or after the
\* call ended; no endpoint is requested twice, except the free-text lookup,
\* which is requested at most twice.
C24_RequestsSequentialInOrder ==
    /\ [](/\ Len(responses) <= Len(requests) /\ Len(requests) <= Len(responses) + 1
          /\ \A i, j \in DOMAIN requests :
                i < j => /\ EndpointRank(requests[i].endpoint) <= EndpointRank(requests[j].endpoint)
                         /\ requests[i].endpoint = requests[j].endpoint
                               => requests[i].endpoint = "direct"
          /\ RequestsTo("direct") <= 2
          /\ \A i \in DOMAIN responses :
                (~responses[i].ok /\ LoadBearing(requests[i].endpoint)) => Len(requests) = i
          /\ pc \in {"done", "failed"} => Len(requests) = Len(responses))
    /\ [][ /\ requests' # requests =>
                /\ \E request \in SeqToSet(requests') : requests' = Append(requests, request)
                /\ Len(responses') = Len(requests)
           /\ pc \in {"done", "failed"} => requests' = requests ]_vars

\* a web call that went through all six requests: the postal lookup failed,
\* the free-text lookup found nothing, the fallback lookup found a place
C24_Witness ==
    /\ pc = "done" /\ variant = "web"
    /\ [i \in DOMAIN requests |-> requests[i].endpoint]
          = <<"zip", "direct", "direct", "forecast", "onecall", "daily">>
    /\ Len(responses) = 6

\* the actual temperatures of the short-range window: the first
\* HORIZON_LENGTH entries of the series, fewer when the series is shorter
WindowTemps ==
    { series[1].list[i].temp : i \in { k \in DOMAIN series[1].list : k <= HORIZON_LENGTH } }

-----------------------------------------------------------------------------
(* Properties of searchLocationSuggestions (SpecSuggest).                  *)

\* C2: a failed postal, free-text or fallback request never makes
\* searchLocationSuggestions fail: the call goes on and returns a list.
C2_SuggestionFailuresContributeNothing ==
    sugFailed # {} => sugPc # "failed" /\ sugError = None

\* the identity key of a location: name and state trimmed and case-folded,
\* the country code, the coordinates
IdentityKey(loc) ==
    <<toLowerCase(trim(loc.name)), toLowerCase(trim(loc.state)),
      toUpperCase(trim(loc.country)), loc.lat, loc.lon>>

\* the elements of locs whose identity key is not in seen and occurs for the
\* first time
RECURSIVE FirstOccurrences(_, _)
FirstOccurrences(locs, seen) ==
    IF locs = <<>> THEN <<>>
    ELSE IF IdentityKey(Head(locs)) \in seen THEN FirstOccurrences(Tail(locs), seen)
    ELSE <<Head(locs)>> \o FirstOccurrences(Tail(locs), seen \cup {IdentityKey(Head(locs))})

\* what the answered request of a source returned (nothing when it was not
\* issued or failed); the free-text sources keep the US candidates
SugAnswer(source) ==
    LET hits == SelectSeq(sugResponses, LAMBDA r : r.source = source /\ r.ok)
    IN  IF hits = <<>> THEN <<>>
        ELSE IF source = "zip" THEN hits[1].results
        ELSE SelectSeq(hits[1].results, LAMBDA l : toUpperCase(l.country) = <<"U","S">>)

\* best free-text match first, then the others in the provider's order
SugRanked(primary) ==
    IF primary = <<>> THEN <<>>
    ELSE Let(LAMBDA best :
                 LET at == CHOOSE i \in DOMAIN primary :
                               primary[i] = best /\ \A j \in 1..(i - 1) : primary[j] # best
                 IN  <<best>> \o SubSeq(primary, 1, at - 1)
                              \o SubSeq(primary, at + 1, Len(primary)),
             pickBestMatch(trim(sugQuery), primary)[1])

SugExpected ==
    FirstOccurrences(SugAnswer("zip") \o SugRanked(SugAnswer("direct")) \o SugAnswer("fallback"),
                     {})

SugReturnedLocations == [i \in DOMAIN sugResult[1] |-> sugResult[1][i].location]

\* C12: for a query of at least 2 trimmed characters the returned locations
\* are the first 5 of: postal match, best free-text match, the other
\* free-text results in provider order, fallback results, with every location
\* whose identity key occurred before left out; so there are at most 5 and
\* no two share an identity key.
C12_SuggestionsOrderedDedupedCapped ==
    (sugPc = "done" /\ Len(trim(sugQuery)) >= 2)
        => /\ sugResult # None
           /\ Let(LAMBDA expected :
                      SugReturnedLocations \o <<>>
                          = SubSeq(expected, 1, Min2(5, Len(expected))),
                  SugExpected)
           /\ Len(sugResult[1]) <= 5
           /\ \A i, j \in DOMAIN sugResult[1] :
                 i # j => IdentityKey(sugResult[1][i].location)
                            # IdentityKey(sugResult[1][j].location)

\* a postal match, a repeated place and more than 5 distinct places
C12_Witness ==
    /\ sugPc = "done"
    /\ SugAnswer("zip") # <<>>
    /\ Len(sugItems) > Len(SugExpected)
    /\ Len(SugExpected) > 5
    /\ Len(sugResult[1]) = 5

\* C13: re-submitting a suggestion's searchValue reproduces the suggestion:
\* against the answers the provider gave during the call, geocodeLocation of
\* the searchValue returns a location with the identity key of the suggested
\* location. Stated for the suggestions whose re-submission asks the provider
\* only what the call already asked, so that every answer is a recorded one.
C13_ResubmitReproduces ==
    (sugPc = "done" /\ sugResult # None) =>
        \A i \in DOMAIN sugResult[1] :
            Let(LAMBDA r : r.known =>
                    /\ r.match # None
                    /\ IdentityKey(r.match[1]) = IdentityKey(sugResult[1][i].location),
                geocodeLocationAgainst(sugResult[1][i].searchValue))

\* a returned suggestion whose re-submission is answered from the same
\* responses and reproduces it
C13_Reproduced ==
    /\ sugPc = "done" /\ sugResult # None
    /\ \E i \in DOMAIN sugResult[1] :
           Let(LAMBDA r : /\ r.known /\ r.match # None
                          /\ IdentityKey(r.match[1]) = IdentityKey(sugResult[1][i].location),
               geocodeLocationAgainst(sugResult[1][i].searchValue))

-----------------------------------------------------------------------------
(* Properties of the incremental search of the App (SpecUI).               *)

\* C1: when the outcome (result list or failure) of a suggestion request
\* arrives after the effect has issued a newer request, the step that
\* delivers it leaves suggestions, suggestionsError and suggestionsLoading
\* as they are, whether or not the newer request has been answered yet.
C1_SupersededOutcomeDiscarded ==
    [][ \A r \in inFlight :
           (r \notin inFlight' /\ r.requestId < issuedId)
               => UNCHANGED <<suggestions, suggestionsError, suggestionsLoading>> ]_vars

\* the outcome of an older request arrived last, after the newest request
\* had been answered with a list, which is still shown
C1_Witness ==
    /\ outcomes # <<>>
    /\ outcomes[1].superseded
    /\ timeoutId = None
    /\ \A r \in inFlight : r.requestId < issuedId
    /\ suggestionRequestIdRef = issuedId
    /\ ~suggestionsLoading
    /\ suggestions # <<>>

\* C27: while the search panel is hidden or the trimmed query has fewer than
\* MIN_AUTOCOMPLETE_QUERY_LENGTH characters the suggestions list is empty,
\* also when a suggestion request issued earlier resolves in the meantime.
C27_SuggestionsStayEmpty ==
    (~searchVisible \/ Len(trim(query)) < MIN_AUTOCOMPLETE_QUERY_LENGTH) => suggestions = <<>>

\* C26: in the web App, when runSearch calls overlap, then once all of them
\* have completed the forecast, lastQuery and error shown are those of the
\* call that started last, whichever response arrived first. Stated for the
\* step that completes the last pending call after the call started last
\* has settled: it leaves on screen what that call showed.
C26_LastStartedSearchWins ==
    [][ (/\ appVariant = "web"
         /\ searches # <<>> /\ searches' = <<>>
         /\ searches[Len(searches)].settled # None)
        => LET last == searches[Len(searches)]
           IN  /\ forecast' = last.settled[1].forecast
               /\ error' = last.settled[1].error
               /\ forecast' # None => lastQuery' = Some(last.query) ]_vars

\* what the user does to the query and the search panel
UserChanges ==
    TypeQuery \/ ClearQuery \/ ShowSearch \/ HideSearch \/ SubmitSearch \/ SelectSuggestion

-----------------------------------------------------------------------------
(* Claims about craftHighlights.                                           *)

HlIds == [i \in DOMAIN hlResult |-> hlResult[i].id] \o <<>>

\* the variants of the six slots, in the order of the list
HlSlots == <<{"dryness", "refresh"}, {"clouds"}, {"feels-like", "cooler", "warmer"},
             {"humidity", "hydration"}, {"visibility", "cozy-views"},
             {"breeze", "wind-energy"}>>

\* C19: craftHighlights returns the empty list for an empty series; for a
\* non-empty series it returns exactly six highlights, the i-th one of the
\* variants of the i-th slot (dryness, clouds, comfort, humidity, visibility,
\* wind), and no id occurs twice.
C19_SixHighlightsInOrder ==
    hlCalled =>
        /\ hlHorizon = <<>> => hlResult = <<>>
        /\ hlHorizon # <<>> =>
              /\ Len(hlResult) = 6
              /\ \A i \in 1..6 : HlIds[i] \in HlSlots[i]
              /\ \A i, j \in 1..6 : i # j => HlIds[i] # HlIds[j]

\* a full-length series whose dryness, humidity and visibility slots take
\* their second variant
C19_Witness ==
    /\ hlCalled /\ Len(hlHorizon) = MaxHorizon
    /\ HlIds = <<"refresh", "clouds", "feels-like", "hydration", "cozy-views", "breeze">>

\* the wet entries as the claim lists them
HlWet(entry) ==
    \/ (entry.rain # None /\ entry.rain[1] # 0)
    \/ (entry.snow # None /\ entry.snow[1] # 0)
    \/ \E k \in DOMAIN entry.weather :
          entry.weather[k] \in {"Rain", "Drizzle", "Thunderstorm", "Snow"}
    \/ (entry.pop # None /\ entry.pop[1] >= 40)

HlWetCount == Cardinality({ i \in DOMAIN hlHorizon : HlWet(hlHorizon[i]) })

\* a pop in hundredths clamped to [0, 1], an absent one counting as 0
HlClampedPop(pop) ==
    IF pop = None THEN 0 ELSE IF pop[1] < 0 THEN 0 ELSE IF pop[1] > 100 THEN 100 ELSE pop[1]

RECURSIVE HlPopSum(_)
HlPopSum(n) == IF n = 0 THEN 0 ELSE HlClampedPop(hlHorizon[n].pop) + HlPopSum(n - 1)

\* round(100 * (1 - mean pop) * max(1 - wetCount / total, 0)): with N entries,
\* pops summing to S hundredths and W wet entries this is
\* round((100 N - S) (N - W) / N^2)
HlDrynessPercent ==
    LET N == Len(hlHorizon)
        numerator == (100 * N - HlPopSum(N)) * (N - HlWetCount)
    IN  (2 * numerator + N * N) \div (2 * N * N)

\* C20: for a non-empty series the dryness slot shows
\* round(100 * clamp01((1 - mean clamped pop) * max(1 - wetCount/total, 0)));
\* its id is 'dryness' exactly from 55 on and 'refresh' below, with the same
\* percentage in both; all pops zero and no wet entry give 100 and 'dryness',
\* every entry wet gives 0 and 'refresh'.
C20_DrynessPercentage ==
    (hlCalled /\ hlHorizon # <<>>) =>
        /\ hlResult[1].heroStatValue = HlDrynessPercent
        /\ hlResult[1].heroStatValue \in 0..100
        /\ hlResult[1].id = "dryness" <=> HlDrynessPercent >= 55
        /\ hlResult[1].id = "refresh" <=> HlDrynessPercent < 55
        /\ (HlWetCount = 0 /\ HlPopSum(Len(hlHorizon)) = 0)
              => hlResult[1].heroStatValue = 100 /\ hlResult[1].id = "dryness"
        /\ HlWetCount = Len(hlHorizon)
              => hlResult[1].heroStatValue = 0 /\ hlResult[1].id = "refresh"

\* a series with a wet entry (wet by its probability alone) and a dry one,
\* neither 0 nor 100 percent dry
C20_Witness ==
    /\ hlCalled /\ Len(hlHorizon) >= 2
    /\ \E i \in DOMAIN hlHorizon :
          /\ hlHorizon[i].pop = Some(40)
          /\ hlHorizon[i].rain = None /\ hlHorizon[i].snow = None
    /\ HlWetCount = 1
    /\ hlResult[1].heroStatValue \in 1..99
    /\ hlResult[1].heroStatValue = HlDrynessPercent

\* the percentages craftHighlights shows: both values of the dryness, clouds
\* and humidity slots
HlPercentages ==
    { hlResult[i].heroStatValue : i \in {1, 2, 4} } \cup
    { hlResult[i].metricValue : i \in {1, 2, 4} }

\* C21: every percentage of the highlights (dryness, rain chance, cloud
\* openings, average cloud cover, humidity) is an integer in [0, 100], also
\* for cloud cover or humidity reported outside 0..100.
C21_PercentagesWithinRange ==
    (hlCalled /\ hlHorizon # <<>>) => \A p \in HlPercentages : p \in 0..100

\* C29: in the dryness slot the dry percentage (heroStatValue) and the rain
\* chance (metricValue) add up to exactly 100, also when the dryness ratio
\* times 100 is an exact half.
C29_DryAndRainSumTo100 ==
    (hlCalled /\ hlHorizon # <<>>) =>
        hlResult[1].heroStatValue + hlResult[1].metricValue = 100

-----------------------------------------------------------------------------
(* Claims about levenshteinDistance.                                       *)

\* the strings one insertion, deletion or substitution away from s, over the
\* characters of LevStrings
SingleEdits(s) ==
    { SubSeq(s, 1, i - 1) \o SubSeq(s, i + 1, Len(s)) : i \in DOMAIN s }
    \cup { SubSeq(s, 1, i - 1) \o <<c>> \o SubSeq(s, i + 1, Len(s)) :
              i \in DOMAIN s, c \in {"a", "b"} }
    \cup { SubSeq(s, 1, i) \o <<c>> \o SubSeq(s, i + 1, Len(s)) :
              i \in 0..Len(s), c \in {"a", "b"} }

\* the strings at most k edits away from the strings of S
RECURSIVE WithinEdits(_, _)
WithinEdits(S, k) ==
    IF k = 0 THEN S
    ELSE Let(LAMBDA near : near \cup UNION { SingleEdits(s) : s \in near },
             WithinEdits(S, k - 1))

\* the classic edit distance: the least number of single edits that turn a
\* into b (never more than the longer length)
EditDistance(a, b) ==
    CHOOSE k \in 0..(Len(a) + Len(b)) :
        /\ b \in WithinEdits({a}, k)
        /\ \A m \in 0..(k - 1) : b \notin WithinEdits({a}, m)

\* C22: levenshteinDistance returns a non-negative integer, 0 for equal
\* arguments, the same value with the arguments exchanged, and the classic
\* edit distance with insertions, deletions and substitutions of cost 1.
C22_LevenshteinIsEditDistance ==
    levCalled =>
        /\ levResult \in Nat
        /\ levA = levB => levResult = 0
        /\ levResult = levenshteinDistance(levB, levA)
        /\ levResult = EditDistance(levA, levB)

\* two strings of different lengths that need a substitution and an
\* insertion
C22_Witness ==
    /\ levCalled
    /\ Len(levA) = 2 /\ Len(levB) = 3
    /\ levA[1] # levB[1]
    /\ levResult = 2

-----------------------------------------------------------------------------
(* Claims about the search history (SpecHistory).                          *)

\* C23: the history never holds more than HISTORY_LIMIT entries nor two
\* entries whose queries are equal case-insensitively; the step in which a
\* search completes puts its entry first, with success = true and the
\* location label for a successful search and with success = false and the
\* error message for a failed one; as long as that entry is in the history
\* it is the first one; deleting and clearing keep the order of the entries
\* that stay.
C23_HistoryBoundedUniqueNewestFirst ==
    /\ [](/\ Len(history) <= HISTORY_LIMIT
          /\ \A i, j \in DOMAIN history :
                i # j => toLowerCase(history[i].query) # toLowerCase(history[j].query)
          /\ historyLast # None =>
                \A i \in DOMAIN history :
                    toLowerCase(history[i].query) = toLowerCase(historyLast[1].query)
                    => /\ i = 1
                       /\ history[i].query = historyLast[1].query
                       /\ history[i].success = historyLast[1].success
                       /\ history[i].errorMessage = historyLast[1].errorMessage)
    /\ [][ /\ Cardinality(historySearches') < Cardinality(historySearches)
              => /\ history' # <<>>
                 /\ history'[1].query = historyLast'[1].query
                 /\ history'[1].success = historyLast'[1].success
                 /\ history'[1].locationLabel = historyLast'[1].locationLabel
                 /\ history'[1].errorMessage = historyLast'[1].errorMessage
                 /\ history'[1].success <=> history'[1].errorMessage = None
           /\ Cardinality(historySearches') >= Cardinality(historySearches)
              => \A i, j \in DOMAIN history' :
                    i < j => \E k, l \in DOMAIN history :
                                /\ k < l
                                /\ history[k] = history'[i] /\ history[l] = history'[j]
         ]_vars

\* a full history whose newest entry is a failed search for "a", which took
\* the place of the stored entry "A", and which no longer holds the oldest
\* stored entry
C23_Witness ==
    /\ Len(history) = HISTORY_LIMIT
    /\ history[1].query = <<"a">> /\ ~history[1].success
    /\ history[1].errorMessage = Some(NotFoundError(<<"a">>))
    /\ \A i \in DOMAIN history : history[i].query # <<"A">> /\ history[i].query # <<"H">>
    /\ historySearches = {}
====
